---- MODULE Spec2Model ----
(***************************************************************************)
(* Client-side reconciliation of the two day-windowed collections of the   *)
(* console view (ConsoleClient.tsx): tasks (Commitments) and localEvents   *)
(* (ScheduledItems), mutated by the server snapshot, the Supabase change   *)
(* feed, the LiveKit agent channel and the local task handlers.            *)
(***************************************************************************)
EXTENDS Integers, Sequences, FiniteSets, TLC

VARIABLES
  tasks,           \* useState<Task[]>(dayTasks)
  localEvents,     \* useState<Event[]>(events)
  selectedDay,     \* the selectedDay prop of the current render
  selectedDayRef,  \* useRef(selectedDay), read by the LiveKit handlers
  leaked,          \* days closed over by channels of setupSubscriptions calls that outlived their cleanup
  lastCreated,     \* the last id the store assigned to a row created by handleSaveTask
  \* the render / effect cycle of the component (SubscriptionSpec)
  phase,           \* where the component is between a commit and the end of its effects
  effects,         \* the runs of the Realtime subscriptions effect: closure day, setup, channels
  installed,       \* the day of the snapshot that tasks / localEvents were last set from
  \* the LiveKit room (RoomSpec)
  isConnected,     \* useState(false), true while the room is connected
  transcript,      \* useState<TranscriptEntry[]>([]), the committed lines
  transcriptCalls, \* the calls of addTranscript not yet committed: speaker and text
  renderError,     \* an exception thrown by a state updater while React renders
  \* the transcript aggregator (AggregatorSpec)
  now,                  \* Date.now()
  transcriptBufferRef,  \* useRef(new Map()): the buffered entry of each speaker key
  debounceTimeoutRef,   \* the time the pending debounce timeout is due, if one is pending
  pendingUpdates,       \* the setTranscript updates React has queued and not yet run
  room,                 \* useState<Room | null>(null): a room is held
  effectRoom,           \* the room the cleanup effect of the last commit closed over
  mounted,              \* the component is mounted
  dispatch              \* the call of dispatchAgentWithRetry made by connectToRoom

effectVars == <<phase, effects, installed>>
aggregatorVars == <<now, transcriptBufferRef, debounceTimeoutRef, pendingUpdates,
                    room, effectRoom, mounted, dispatch>>
roomVars == <<isConnected, transcript, transcriptCalls, renderError, aggregatorVars>>
vars == <<tasks, localEvents, selectedDay, selectedDayRef, leaked, lastCreated,
          phase, effects, installed, isConnected, transcript, transcriptCalls, renderError,
          now, transcriptBufferRef, debounceTimeoutRef, pendingUpdates, room, effectRoom,
          mounted, dispatch>>

(***************************************************************************)
(* Bounds of the model.                                                    *)
(***************************************************************************)
MaxId == 2        \* row ids are 1..MaxId
MaxLen == 2       \* entries held by a collection

(***************************************************************************)
(* Time.  Timestamps are milliseconds since the epoch; a day is selected   *)
(* by its index.                                                           *)
(***************************************************************************)
HourMs == 60 * 60 * 1000
DayMs == 24 * HourMs
NoTime == 0 - 1                      \* a null start / due
NoTimeout == 0 - 1                   \* no pending debounce timeout

Days == {0, 1}
startOfDay(day) == day * DayMs                                   \* setHours(0, 0, 0, 0)
endOfDay(day) == day * DayMs + 23 * HourMs + 59 * 60 * 1000 + 59 * 1000 + 999  \* setHours(23, 59, 59, 999)

\* 08:00 and 09:00 of day 0, the last millisecond of day 0, 00:00 of day 1
Times == {8 * HourMs, 9 * HourMs, DayMs - 1, DayMs}

(***************************************************************************)
(* Entities.  An id is a JSON number or a JSON string holding the numeral. *)
(***************************************************************************)
RowNums == 1..MaxId
NumId(n) == [kind |-> "number", n |-> n]
Ids == [kind : {"number", "string"}, n : RowNums]
NumIds == {NumId(n) : n \in RowNums}

\* the id of a record that has no id field
Undefined == [kind |-> "undefined", n |-> 0]

\* String(id): the decimal numeral, whatever the representation; "undefined"
\* for a missing id
Str(id) == IF id.kind = "undefined" THEN "undefined" ELSE ToString(id.n)

Tasks == [id : Ids, due : Times \cup {NoTime}]
Events == [id : Ids, start : Times \cup {NoTime}]

\* rows as the backing store returns them (bigint ids are JSON numbers)
TaskRows == {t \in Tasks : t.id.kind = "number"}
EventRows == {e \in Events : e.id.kind = "number"}

Range(s) == {s[i] : i \in 1..Len(s)}
Min(S) == CHOOSE x \in S : \A y \in S : x <= y

(***************************************************************************)
(* Membership predicates.                                                  *)
(***************************************************************************)
isTaskInSelectedDay(task, day) ==
  IF task.due = NoTime THEN TRUE ELSE task.due <= endOfDay(day)

isEventInSelectedDay(event, day) ==
  IF event.start = NoTime THEN FALSE
  ELSE event.start >= startOfDay(day) /\ event.start < endOfDay(day)

\* isInDayTask with the start of the day as a lower bound
isInDayTaskFromStartOfDay(t, currentDay) ==
  IF t.due = NoTime THEN TRUE
  ELSE t.due >= startOfDay(currentDay) /\ t.due <= endOfDay(currentDay)

isInDayTask(t, currentDay) ==
  IF t.due = NoTime THEN TRUE ELSE t.due <= endOfDay(currentDay)

isInDayEvent(e, currentDay) ==
  IF e.start = NoTime THEN FALSE
  ELSE e.start >= startOfDay(currentDay) /\ e.start < endOfDay(currentDay)

(***************************************************************************)
(* Sorting.  Array.prototype.sort is stable; with a consistent comparator  *)
(* its result is the stable insertion order computed here.                 *)
(***************************************************************************)
\* a.id - b.id; NaN (an undefined id) is taken as 0 by the sort
idDifference(a, b) ==
  IF a.kind = "undefined" \/ b.kind = "undefined" THEN 0 ELSE a.n - b.n

\* comparator of sortTasks
taskCompare(a, b) ==
  IF a.due = NoTime /\ b.due = NoTime THEN idDifference(a.id, b.id)
  ELSE IF a.due = NoTime THEN 1
  ELSE IF b.due = NoTime THEN 0 - 1
  ELSE IF a.due = b.due THEN idDifference(a.id, b.id)
  ELSE a.due - b.due

\* comparator of the four inline event sorts
eventCompare(a, b) ==
  IF a.start = NoTime \/ b.start = NoTime THEN 0
  ELSE a.start - b.start

InsertAt(s, p, x) == SubSeq(s, 1, p - 1) \o <<x>> \o SubSeq(s, p, Len(s))

RECURSIVE sortTasks(_)
sortTasks(list) ==
  IF list = <<>> THEN <<>>
  ELSE LET s == sortTasks(SubSeq(list, 1, Len(list) - 1))
           x == list[Len(list)]
           after == {i \in 1..Len(s) : taskCompare(s[i], x) > 0}
       IN InsertAt(s, IF after = {} THEN Len(s) + 1 ELSE Min(after), x)

RECURSIVE sortEvents(_)
sortEvents(list) ==
  IF list = <<>> THEN <<>>
  ELSE LET s == sortEvents(SubSeq(list, 1, Len(list) - 1))
           x == list[Len(list)]
           after == {i \in 1..Len(s) : eventCompare(s[i], x) > 0}
       IN InsertAt(s, IF after = {} THEN Len(s) + 1 ELSE Min(after), x)

\* prev.findIndex((t) => String(t.id) === String(id)); 0 stands for -1
findIndex(prev, id) ==
  LET hits == {i \in 1..Len(prev) : Str(prev[i].id) = Str(id)}
  IN IF hits = {} THEN 0 ELSE Min(hits)

\* prev.filter((t) => String(t.id) !== String(id))
filterOut(prev, id) == SelectSeq(prev, LAMBDA t : Str(t.id) # Str(id))

(***************************************************************************)
(* Change-feed handlers (postgres_changes callbacks).                      *)
(***************************************************************************)
feedTaskInsert(prev, newTask, day) ==
  IF isTaskInSelectedDay(newTask, day)
  THEN IF \E i \in 1..Len(prev) : prev[i].id = newTask.id
       THEN prev
       ELSE sortTasks(Append(prev, newTask))
  ELSE prev

\* feedTaskUpdate storing the row whatever its due date
feedTaskUpdateAnyDay(prev, updatedTask, day) ==
  LET existingIndex == findIndex(prev, updatedTask.id)
  IN IF existingIndex > 0
     THEN sortTasks([prev EXCEPT ![existingIndex] = updatedTask])
     ELSE sortTasks(Append(prev, updatedTask))

feedTaskUpdate(prev, updatedTask, day) ==
  LET existingIndex == findIndex(prev, updatedTask.id)
  IN IF existingIndex > 0
     THEN IF isTaskInSelectedDay(updatedTask, day)
          THEN sortTasks([prev EXCEPT ![existingIndex] = updatedTask])
          ELSE filterOut(prev, updatedTask.id)
     ELSE IF isTaskInSelectedDay(updatedTask, day)
          THEN sortTasks(Append(prev, updatedTask))
          ELSE prev

\* feedTaskDelete comparing ids without String()
feedTaskDeleteStrictId(prev, id) == SelectSeq(prev, LAMBDA t : t.id # id)

feedTaskDelete(prev, id) == filterOut(prev, id)

\* feedEventInsert appending without the sort
feedEventInsertUnsorted(prev, newEvent, day) ==
  IF isEventInSelectedDay(newEvent, day)
  THEN IF \E i \in 1..Len(prev) : prev[i].id = newEvent.id
       THEN prev
       ELSE Append(prev, newEvent)
  ELSE prev

feedEventInsert(prev, newEvent, day) ==
  IF isEventInSelectedDay(newEvent, day)
  THEN IF \E i \in 1..Len(prev) : prev[i].id = newEvent.id
       THEN prev
       ELSE sortEvents(Append(prev, newEvent))
  ELSE prev

feedEventUpdate(prev, updatedEvent, day) ==
  LET existingIndex == findIndex(prev, updatedEvent.id)
  IN IF existingIndex > 0
     THEN IF isEventInSelectedDay(updatedEvent, day)
          THEN sortEvents([prev EXCEPT ![existingIndex] = updatedEvent])
          ELSE filterOut(prev, updatedEvent.id)
     ELSE IF isEventInSelectedDay(updatedEvent, day)
          THEN sortEvents(Append(prev, updatedEvent))
          ELSE prev

feedEventDelete(prev, id) == filterOut(prev, id)

(***************************************************************************)
(* Agent-channel handlers (RoomEvent.DataReceived, task_update and         *)
(* event_update envelopes).                                                *)
(***************************************************************************)
\* agentTaskInsert without the check for an existing entry
agentTaskInsertNoDupCheck(prev, entity, currentDay) ==
  IF isInDayTask(entity, currentDay)
  THEN sortTasks(Append(prev, entity))
  ELSE prev

agentTaskInsert(prev, entity, currentDay) ==
  IF isInDayTask(entity, currentDay)
  THEN IF \E i \in 1..Len(prev) : Str(prev[i].id) = Str(entity.id)
       THEN prev
       ELSE sortTasks(Append(prev, entity))
  ELSE prev

agentTaskUpdate(prev, entity, currentDay) ==
  LET idx == findIndex(prev, entity.id)
  IN IF idx > 0
     THEN IF isInDayTask(entity, currentDay)
          THEN sortTasks([prev EXCEPT ![idx] = entity])
          ELSE filterOut(prev, entity.id)
     ELSE IF isInDayTask(entity, currentDay)
          THEN sortTasks(Append(prev, entity))
          ELSE prev

agentTaskDelete(prev, id) == filterOut(prev, id)

agentEventInsert(prev, entity, currentDay) ==
  IF isInDayEvent(entity, currentDay)
  THEN IF \E i \in 1..Len(prev) : Str(prev[i].id) = Str(entity.id)
       THEN prev
       ELSE sortEvents(Append(prev, entity))
  ELSE prev

agentEventUpdate(prev, entity, currentDay) ==
  LET idx == findIndex(prev, entity.id)
  IN IF idx > 0
     THEN IF isInDayEvent(entity, currentDay)
          THEN sortEvents([prev EXCEPT ![idx] = entity])
          ELSE filterOut(prev, entity.id)
     ELSE IF isInDayEvent(entity, currentDay)
          THEN sortEvents(Append(prev, entity))
          ELSE prev

agentEventDelete(prev, id) == filterOut(prev, id)

(***************************************************************************)
(* Local task handlers: the setTasks updaters run on the server response.  *)
(***************************************************************************)
\* handleSaveTask, create mode
saveTaskCreate(prev, data) == sortTasks(Append(prev, data))

\* handleSaveTask, edit mode
saveTaskEdit(prev, activeId, data) ==
  sortTasks([i \in 1..Len(prev) |-> IF prev[i].id = activeId THEN data ELSE prev[i]])

\* handleDeleteTask
deleteTask(prev, activeId) == SelectSeq(prev, LAMBDA t : t.id # activeId)

\* handleToggleTaskDone
toggleTaskDone(prev, taskId, data) ==
  [i \in 1..Len(prev) |-> IF prev[i].id = taskId THEN data ELSE prev[i]]

(***************************************************************************)
(* Server snapshot (ConsolePage): rows of the selected day, in the order   *)
(* of the query; rows with equal sort key come in any order.               *)
(***************************************************************************)
DistinctIds(s) == \A i, j \in 1..Len(s) : i # j => s[i].id # s[j].id

SeqsUpTo(S, n) == UNION {[1..k -> S] : k \in 0..n}

\* .gte("start", startOfDay).lt("start", endOfDay).order("start")
SnapshotEvents ==
  [day \in Days |->
    {s \in SeqsUpTo({e \in EventRows : e.start # NoTime
                                        /\ e.start >= startOfDay(day)
                                        /\ e.start < endOfDay(day)}, MaxId) :
       /\ DistinctIds(s)
       /\ \A i, j \in 1..Len(s) : i < j => s[i].start <= s[j].start}]

\* .or(due.gte.startOfDay, due.is.null).order("due", nullsFirst: false),
\* then filtered by dueDate <= endOfDay
SnapshotTasks ==
  [day \in Days |->
    {s \in SeqsUpTo({t \in TaskRows : t.due = NoTime
                                       \/ (t.due >= startOfDay(day) /\ t.due <= endOfDay(day))}, MaxId) :
       /\ DistinctIds(s)
       /\ \A i, j \in 1..Len(s) : i < j =>
            \/ s[j].due = NoTime
            \/ (s[i].due # NoTime /\ s[i].due <= s[j].due)}]

(***************************************************************************)
(* State machine.  The two collections are independent state cells; a run  *)
(* fills one of them at a time and each holds at most MaxLen entries.      *)
(***************************************************************************)
Fits(ts, es) ==
  /\ Len(ts) <= MaxLen
  /\ Len(es) <= MaxLen
  /\ (ts = <<>> \/ es = <<>>)

\* days closed over by the postgres_changes callbacks that can run: those of
\* the current effect and those of the calls that outlived their cleanup
FeedDays == {selectedDay} \cup leaked

\* the effect cycle and the room take no step in this specification
EffectsAtRest == phase = "idle" /\ effects = <<>> /\ installed = 0
AggregatorAtRest ==
  /\ now = 0
  /\ transcriptBufferRef = <<>>
  /\ debounceTimeoutRef = NoTimeout
  /\ pendingUpdates = <<>>
  /\ room = FALSE
  /\ effectRoom = FALSE
  /\ mounted = TRUE
  /\ dispatch = [pc |-> "none", attempt |-> 0, outcomes |-> <<>>, delays |-> 0, result |-> "none"]
RoomAtRest ==
  /\ isConnected = FALSE
  /\ transcript = <<>>
  /\ transcriptCalls = <<>>
  /\ renderError = FALSE
  /\ AggregatorAtRest

Init ==
  /\ selectedDay \in Days
  /\ selectedDayRef = selectedDay
  /\ tasks = <<>>
  /\ localEvents = <<>>
  /\ leaked = {}
  /\ lastCreated = 0
  /\ EffectsAtRest
  /\ RoomAtRest

UnchangedWindow ==
  /\ UNCHANGED <<selectedDay, selectedDayRef, leaked>>
  /\ UNCHANGED <<effectVars, roomVars>>

\* Day navigation: new props arrive.  The cleanup of the subscription effect
\* removes its channels only if setupSubscriptions has assigned them; when
\* getUser is still pending the channels are subscribed later and stay.
\* Then the ref is updated, the snapshot installed and the effect re-run.
Navigate ==
  \E day \in Days :
    \E ts \in SnapshotTasks[day], es \in SnapshotEvents[day] :
      /\ Fits(ts, es)
      /\ selectedDay' = day
      /\ selectedDayRef' = day
      /\ tasks' = ts
      /\ localEvents' = es
      /\ leaked' \in {leaked, leaked \cup {selectedDay}}
      /\ UNCHANGED <<lastCreated, effectVars, roomVars>>

TaskStep(next) ==
  /\ Fits(next, localEvents)
  /\ tasks' = next
  /\ UNCHANGED <<localEvents, lastCreated>>
  /\ UnchangedWindow

EventStep(next) ==
  /\ Fits(tasks, next)
  /\ localEvents' = next
  /\ UNCHANGED <<tasks, lastCreated>>
  /\ UnchangedWindow

FeedTaskInsert ==
  \E day \in FeedDays, t \in TaskRows : TaskStep(feedTaskInsert(tasks, t, day))

FeedTaskUpdate ==
  \E day \in FeedDays, t \in TaskRows : TaskStep(feedTaskUpdate(tasks, t, day))

FeedTaskDelete ==
  \E id \in NumIds : TaskStep(feedTaskDelete(tasks, id))

FeedEventInsert ==
  \E day \in FeedDays, e \in EventRows : EventStep(feedEventInsert(localEvents, e, day))

FeedEventUpdate ==
  \E day \in FeedDays, e \in EventRows : EventStep(feedEventUpdate(localEvents, e, day))

FeedEventDelete ==
  \E id \in NumIds : EventStep(feedEventDelete(localEvents, id))

AgentTaskInsert ==
  \E t \in Tasks : TaskStep(agentTaskInsert(tasks, t, selectedDayRef))

AgentTaskUpdate ==
  \E t \in Tasks : TaskStep(agentTaskUpdate(tasks, t, selectedDayRef))

AgentTaskDelete ==
  \E id \in Ids : TaskStep(agentTaskDelete(tasks, id))

AgentEventInsert ==
  \E e \in Events : EventStep(agentEventInsert(localEvents, e, selectedDayRef))

AgentEventUpdate ==
  \E e \in Events : EventStep(agentEventUpdate(localEvents, e, selectedDayRef))

AgentEventDelete ==
  \E id \in Ids : EventStep(agentEventDelete(localEvents, id))

\* the response of the insert of handleSaveTask: the store assigned the next
\* identity value to the new row
SaveTaskCreate ==
  \E data \in TaskRows :
    /\ data.id.n > lastCreated
    /\ LET next == saveTaskCreate(tasks, data)
       IN /\ Fits(next, localEvents)
          /\ tasks' = next
    /\ lastCreated' = data.id.n
    /\ UNCHANGED localEvents
    /\ UnchangedWindow

\* the response of the update of handleSaveTask for the task opened in the modal
SaveTaskEdit ==
  \E activeId \in Ids, data \in TaskRows :
    /\ data.id.n = activeId.n
    /\ TaskStep(saveTaskEdit(tasks, activeId, data))

DeleteTask ==
  \E activeId \in Ids : TaskStep(deleteTask(tasks, activeId))

ToggleTaskDone ==
  \E i \in 1..Len(tasks), data \in TaskRows :
    /\ data.id.n = tasks[i].id.n
    /\ TaskStep(toggleTaskDone(tasks, tasks[i].id, data))

Next ==
  \/ Navigate
  \/ FeedTaskInsert
  \/ FeedTaskUpdate
  \/ FeedTaskDelete
  \/ FeedEventInsert
  \/ FeedEventUpdate
  \/ FeedEventDelete
  \/ AgentTaskInsert
  \/ AgentTaskUpdate
  \/ AgentTaskDelete
  \/ AgentEventInsert
  \/ AgentEventUpdate
  \/ AgentEventDelete
  \/ SaveTaskCreate
  \/ SaveTaskEdit
  \/ DeleteTask
  \/ ToggleTaskDone

Spec == Init /\ [][Next]_vars

(***************************************************************************)
(* The render / effect cycle.  New props (selectedDay, events, dayTasks)   *)
(* arrive with a render; after its commit React runs the cleanups of the   *)
(* effects whose dependencies changed and then the effect bodies in source *)
(* order, without any handler in between: the selectedDayRef effect, the   *)
(* props-to-state effect, the Realtime subscriptions effect.  The          *)
(* setupSubscriptions call of a run awaits getUser and subscribes its two  *)
(* channels when that resolves, whether or not the cleanup of the run has  *)
(* been called in the meantime.                                            *)
(***************************************************************************)
MaxEffects == 2   \* runs of the subscriptions effect that can still act

EventTypes == {"INSERT", "UPDATE", "DELETE"}

\* let tasksChannel = null, eventsChannel = null; setupSubscriptions()
NewEffect(day) ==
  [day |-> day, setup |-> "pending", cleaned |-> FALSE,
   tasksChannel |-> "null", eventsChannel |-> "null"]

\* the cleanup function of a run: removeChannel for the channels assigned so far
cleanup(e) ==
  [e EXCEPT !.cleaned = TRUE,
            !.tasksChannel = IF @ = "subscribed" THEN "removed" ELSE @,
            !.eventsChannel = IF @ = "subscribed" THEN "removed" ELSE @]

\* a run that can take no further step: cleaned up, setup over, no channel open
Finished(e) ==
  /\ e.cleaned
  /\ e.setup # "pending"
  /\ e.tasksChannel # "subscribed"
  /\ e.eventsChannel # "subscribed"

\* the runs left after the cleanup of the current (last) run; runs that can
\* take no further step are forgotten
afterCleanup(runs) ==
  SelectSeq([i \in 1..Len(runs) |-> IF i = Len(runs) THEN cleanup(runs[i]) ELSE runs[i]],
            LAMBDA e : ~Finished(e))

\* the callback of the tasks-changes channel
tasksCallback(prev, eventType, row, day) ==
  CASE eventType = "INSERT" -> feedTaskInsert(prev, row, day)
    [] eventType = "UPDATE" -> feedTaskUpdate(prev, row, day)
    [] eventType = "DELETE" -> feedTaskDelete(prev, row.id)

\* the callback of the events-changes channel
eventsCallback(prev, eventType, row, day) ==
  CASE eventType = "INSERT" -> feedEventInsert(prev, row, day)
    [] eventType = "UPDATE" -> feedEventUpdate(prev, row, day)
    [] eventType = "DELETE" -> feedEventDelete(prev, row.id)

\* the task_update branch of the DataReceived handler
taskUpdateMessage(prev, action, entity, currentDay) ==
  CASE action = "INSERT" -> agentTaskInsert(prev, entity, currentDay)
    [] action = "UPDATE" -> agentTaskUpdate(prev, entity, currentDay)
    [] action = "DELETE" -> agentTaskDelete(prev, entity.id)

\* the event_update branch of the DataReceived handler
eventUpdateMessage(prev, action, entity, currentDay) ==
  CASE action = "INSERT" -> agentEventInsert(prev, entity, currentDay)
    [] action = "UPDATE" -> agentEventUpdate(prev, entity, currentDay)
    [] action = "DELETE" -> agentEventDelete(prev, entity.id)

\* handlers run between renders and between a commit and its effects
HandlersRun == phase \in {"idle", "committed"}

\* the first render has been committed: useState(dayTasks), useState(events),
\* useRef(selectedDay); its effects have not run yet
SubscriptionInit ==
  /\ selectedDay \in Days
  /\ selectedDayRef = selectedDay
  /\ installed = selectedDay
  /\ tasks \in SnapshotTasks[selectedDay]
  /\ localEvents \in SnapshotEvents[selectedDay]
  /\ Fits(tasks, localEvents)
  /\ phase = "committed"
  /\ effects = <<>>
  /\ leaked = {}
  /\ lastCreated = 0
  /\ isConnected = TRUE
  /\ transcript = <<>>
  /\ transcriptCalls = <<>>
  /\ renderError = FALSE
  /\ AggregatorAtRest

UnchangedCollections == UNCHANGED <<tasks, localEvents>>
UnchangedRest == UNCHANGED <<leaked, lastCreated, roomVars>>

\* router.push(?day=...) or a refresh: the page is rendered for a day and the
\* component is rendered with the new props
Render ==
  /\ phase = "idle"
  /\ Len(afterCleanup(effects)) < MaxEffects
  /\ \E day \in Days : selectedDay' = day
  /\ phase' = "committed"
  /\ UNCHANGED <<selectedDayRef, effects, installed>>
  /\ UnchangedCollections
  /\ UnchangedRest

\* the cleanup of the previous run of the subscriptions effect
RunCleanup ==
  /\ phase = "committed"
  /\ phase' = "cleaned"
  /\ effects' = afterCleanup(effects)
  /\ UNCHANGED <<selectedDay, selectedDayRef, installed>>
  /\ UnchangedCollections
  /\ UnchangedRest

\* the selectedDayRef effect also dropping the entries outside the new day
RefEffectRefilters ==
  /\ phase = "cleaned"
  /\ phase' = "refSet"
  /\ selectedDayRef' = selectedDay
  /\ tasks' = SelectSeq(tasks, LAMBDA t : isTaskInSelectedDay(t, selectedDay))
  /\ localEvents' = SelectSeq(localEvents, LAMBDA e : isEventInSelectedDay(e, selectedDay))
  /\ UNCHANGED <<selectedDay, effects, installed>>
  /\ UNCHANGED <<leaked, lastCreated, roomVars>>

\* selectedDayRef.current = selectedDay
RefEffect ==
  /\ phase = "cleaned"
  /\ phase' = "refSet"
  /\ selectedDayRef' = selectedDay
  /\ UNCHANGED <<selectedDay, effects, installed>>
  /\ UnchangedCollections
  /\ UnchangedRest

\* setTasks(dayTasks); setLocalEvents(events || [])
PropsEffect ==
  /\ phase = "refSet"
  /\ \E ts \in SnapshotTasks[selectedDay], es \in SnapshotEvents[selectedDay] :
       /\ Fits(ts, es)
       /\ tasks' = ts
       /\ localEvents' = es
  /\ phase' = "installed"
  /\ installed' = selectedDay
  /\ UNCHANGED <<selectedDay, selectedDayRef, effects>>
  /\ UnchangedRest

\* the body of the subscriptions effect: setupSubscriptions() starts and awaits getUser
SubscribeEffect ==
  /\ phase = "installed"
  /\ phase' = "idle"
  /\ effects' = Append(effects, NewEffect(selectedDay))
  /\ UNCHANGED <<selectedDay, selectedDayRef, installed>>
  /\ UnchangedCollections
  /\ UnchangedRest

AsyncStep(next) ==
  /\ phase \in {"idle", "committed", "unmounted"}
  /\ effects' = next
  /\ UNCHANGED <<phase, selectedDay, selectedDayRef, installed>>
  /\ UnchangedCollections
  /\ UnchangedRest

\* getUser resolved with a user: both channels are created and subscribed
GetUserResolved ==
  \E i \in 1..Len(effects) :
    /\ effects[i].setup = "pending"
    /\ AsyncStep([effects EXCEPT ![i].setup = "done",
                                 ![i].tasksChannel = "subscribed",
                                 ![i].eventsChannel = "subscribed"])

\* getUser resolved with an error or without a user: setupSubscriptions returns
GetUserFailed ==
  \E i \in 1..Len(effects) :
    /\ effects[i].setup = "pending"
    /\ AsyncStep(SelectSeq([effects EXCEPT ![i].setup = "failed"], LAMBDA e : ~Finished(e)))

\* the component unmounts: the cleanup of the current run
Unmount ==
  /\ phase = "idle"
  /\ phase' = "unmounted"
  /\ effects' = afterCleanup(effects)
  /\ UNCHANGED <<selectedDay, selectedDayRef, installed>>
  /\ UnchangedCollections
  /\ UnchangedRest

\* a tasks change is delivered on a subscribed tasks-changes channel
TasksChannelCallback ==
  \E i \in 1..Len(effects) :
    /\ HandlersRun
    /\ effects[i].tasksChannel = "subscribed"
    /\ \E eventType \in EventTypes, row \in TaskRows :
         TaskStep(tasksCallback(tasks, eventType, row, effects[i].day))

\* an events change is delivered on a subscribed events-changes channel
EventsChannelCallback ==
  \E i \in 1..Len(effects) :
    /\ HandlersRun
    /\ effects[i].eventsChannel = "subscribed"
    /\ \E eventType \in EventTypes, row \in EventRows :
         EventStep(eventsCallback(localEvents, eventType, row, effects[i].day))

\* the agent sends a task_update or an event_update for a row of the store
DataReceivedUpdate ==
  /\ HandlersRun
  /\ isConnected
  /\ \E action \in EventTypes :
       \/ \E row \in TaskRows :
            TaskStep(taskUpdateMessage(tasks, action, row, selectedDayRef))
       \/ \E row \in EventRows :
            EventStep(eventUpdateMessage(localEvents, action, row, selectedDayRef))

SubscriptionNext ==
  \/ Render
  \/ RunCleanup
  \/ RefEffect
  \/ PropsEffect
  \/ SubscribeEffect
  \/ GetUserResolved
  \/ GetUserFailed
  \/ Unmount
  \/ TasksChannelCallback
  \/ EventsChannelCallback
  \/ DataReceivedUpdate

SubscriptionSpec == SubscriptionInit /\ [][SubscriptionNext]_vars

(***************************************************************************)
(* Text.  A string is the sequence of its characters; the operators are    *)
(* the String methods the transcript code calls.                           *)
(***************************************************************************)
\* String.prototype.toLowerCase, on the letters the model uses in upper case
toLowerChar(c) ==
  CASE c = "I" -> "i"
    [] c = "G" -> "g"
    [] c = "S" -> "s"
    [] OTHER -> c
toLowerCase(s) == [i \in 1..Len(s) |-> toLowerChar(s[i])]

\* String.prototype.trim
RECURSIVE trimStart(_)
trimStart(s) == IF s # <<>> /\ s[1] = " " THEN trimStart(Tail(s)) ELSE s
RECURSIVE trimEnd(_)
trimEnd(s) == IF s # <<>> /\ s[Len(s)] = " " THEN trimEnd(SubSeq(s, 1, Len(s) - 1)) ELSE s
trim(s) == trimEnd(trimStart(s))

\* String.prototype.includes
includes(s, searchString) ==
  \E i \in 1..(Len(s) - Len(searchString) + 1) :
    SubSeq(s, i, i + Len(searchString) - 1) = searchString

\* s.split(/\s+/): the pieces between the maximal runs of white space
RECURSIVE split(_)
split(s) ==
  LET spaces == {i \in 1..Len(s) : s[i] = " "}
  IN IF spaces = {} THEN <<s>>
     ELSE LET i == Min(spaces)
              rest == {j \in (i + 1)..Len(s) : s[j] # " "}
              j == IF rest = {} THEN Len(s) + 1 ELSE Min(rest)
          IN <<SubSeq(s, 1, i - 1)>> \o split(SubSeq(s, j, Len(s)))

\* words.join(" ")
RECURSIVE join(_)
join(words) ==
  IF words = <<>> THEN <<>>
  ELSE IF Len(words) = 1 THEN words[1]
  ELSE words[1] \o <<" ">> \o join(Tail(words))

\* text.toLowerCase().trim()
normalized(text) == trim(toLowerCase(text))

(***************************************************************************)
(* The transcript aggregator: transcriptBufferRef is the Map of the        *)
(* buffered entries, a sequence in insertion order of its keys; a write to *)
(* a key the Map holds keeps the key's place.                              *)
(***************************************************************************)
DebounceMs == 1500   \* setTimeout(commitBufferedTranscripts, 1500)
MergeMs == 3000      \* timeDiff < 3000

\* calculateSimilarity: the sizes of the intersection and of the union of the word sets
calculateSimilarity(text1, text2) ==
  LET words1 == Range(split(trim(toLowerCase(text1))))
      words2 == Range(split(trim(toLowerCase(text2))))
  IN [intersection |-> Cardinality(words1 \cap words2),
      union |-> Cardinality(words1 \cup words2)]

\* similarity > 0.85
above85(similarity) == 100 * similarity.intersection > 85 * similarity.union

\* speaker === "agent" || speaker.includes("agent") ? "Tetra" : "You"
AgentWord == <<"a", "g", "e", "n", "t">>
\* the test without speaker.includes("agent")
normalizedSpeakerExact(speaker) == IF speaker = AgentWord THEN "Tetra" ELSE "You"

normalizedSpeaker(speaker) ==
  IF speaker = AgentWord \/ includes(speaker, AgentWord) THEN "Tetra" ELSE "You"

\* the length test without the trim
tooShortUntrimmed(text) == text = <<>> \/ Len(text) < 2

\* !text || text.trim().length < 2
tooShort(text) == text = <<>> \/ Len(trim(text)) < 2

\* transcriptBufferRef.current.get(bufferKey): the index of the key, 0 when absent
bufferIndex(buffers, bufferKey) ==
  IF \E i \in 1..Len(buffers) : buffers[i].speaker = bufferKey
  THEN CHOOSE i \in 1..Len(buffers) : buffers[i].speaker = bufferKey
  ELSE 0

\* existingText.includes(newText) && existingText.length > newText.length
stalePartial(existingBuffer, text) ==
  LET existingText == normalized(existingBuffer.text)
      newText == normalized(text)
  IN includes(existingText, newText) /\ Len(existingText) > Len(newText)

\* newText.includes(existingText) && newText.length > existingText.length
extendsBuffer(existingBuffer, text) ==
  LET existingText == normalized(existingBuffer.text)
      newText == normalized(text)
  IN includes(newText, existingText) /\ Len(newText) > Len(existingText)

\* the replace branch starting a new entry
replaceBufferFresh(existingBuffer, text, dateNow) ==
  [existingBuffer EXCEPT !.text = trim(text), !.timestamp = dateNow]

\* the replace branch: the incoming text, the timestamp of the buffer
replaceBuffer(existingBuffer, text, dateNow) ==
  [existingBuffer EXCEPT !.text = trim(text)]

\* newWords.filter((word) => word.length > 0 && !existingWords.includes(word))
additionalWords(existingBuffer, text) ==
  LET existingWords == split(normalized(existingBuffer.text))
      newWords == split(normalized(text))
  IN SelectSeq(newWords, LAMBDA word : Len(word) > 0 /\ word \notin Range(existingWords))

\* the merge branch: the buffered text and the words it does not have
mergeBuffer(existingBuffer, text, dateNow) ==
  IF additionalWords(existingBuffer, text) # <<>>
  THEN [existingBuffer EXCEPT
          !.text = existingBuffer.text \o <<" ">> \o join(additionalWords(existingBuffer, text))]
  ELSE existingBuffer

\* the gap branch keeping the timestamp of the entry it replaces
restartBufferKeepsFirstSeen(existingBuffer, text, dateNow) ==
  [existingBuffer EXCEPT !.text = trim(text)]

\* the gap branch: a new entry for the key
restartBuffer(existingBuffer, text, dateNow) ==
  [existingBuffer EXCEPT !.text = trim(text), !.timestamp = dateNow]

\* the write to a key that has a buffer
updateBuffer(existingBuffer, text, dateNow) ==
  IF extendsBuffer(existingBuffer, text) THEN replaceBuffer(existingBuffer, text, dateNow)
  ELSE IF dateNow - existingBuffer.timestamp < MergeMs THEN mergeBuffer(existingBuffer, text, dateNow)
  ELSE restartBuffer(existingBuffer, text, dateNow)

\* addTranscript(speaker, text) at time dateNow: the buffers and the debounce timeout after it
addTranscript(buffers, timeout, speaker, text, dateNow) ==
  LET bufferKey == normalizedSpeaker(speaker)
      i == bufferIndex(buffers, bufferKey)
  IN IF tooShort(text) THEN [buffers |-> buffers, timeout |-> timeout]
     ELSE IF i > 0 /\ stalePartial(buffers[i], text)
     THEN [buffers |-> buffers, timeout |-> timeout]
     ELSE [buffers |-> IF i > 0
                       THEN [buffers EXCEPT ![i] = updateBuffer(buffers[i], text, dateNow)]
                       ELSE Append(buffers, [speaker |-> bufferKey, text |-> trim(text),
                                             timestamp |-> dateNow]),
           timeout |-> dateNow + DebounceMs]

\* the commit without the test against the last entry
isDuplicateNever(prev, buffer) == FALSE

\* the first two tests of the updater: the buffer repeats the last committed line
isDuplicate(prev, buffer) ==
  /\ prev # <<>>
  /\ prev[Len(prev)].speaker = buffer.speaker
  /\ \/ normalized(prev[Len(prev)].text) = normalized(buffer.text)
     \/ above85(calculateSimilarity(prev[Len(prev)].text, buffer.text))

\* newEntries of the updater
newEntries(prev, buffers) == SelectSeq(buffers, LAMBDA buffer : ~isDuplicate(prev, buffer))

\* the updater of commitBufferedTranscripts: [...prev, ...newEntries]
commitBufferedTranscripts(prev, buffers) == prev \o newEntries(prev, buffers)

(***************************************************************************)
(* The LiveKit room: the Connected, Disconnected and DataReceived handlers *)
(* of connectToRoom, the user's disconnect, and the debounce timer of the  *)
(* transcript.  A data message is the decoded payload text; the text       *)
(* handed to addTranscript is either that raw text or the text field of    *)
(* the parsed message.                                                     *)
(***************************************************************************)
MaxCalls == 2     \* calls of addTranscript between two commits
MaxLines == 2     \* committed transcript lines

\* data.data of a message without a data field
NoEntity == [id |-> Undefined, absent |-> TRUE]

\* participant?.identity: an agent identity, or no participant
Senders == {"agent", "none"}

\* records sent by the agent: a row, or a record without its id
AgentIds == {NumId(Min(RowNums)), Undefined}
AgentTimes == {NoTime, 8 * HourMs, DayMs}

\* type "notjson": JSON.parse throws; "null": the JSON value null; "none": an
\* object without a known type; hasText: the object has a text or transcript field
Messages ==
  [type : {"notjson", "null"}, action : {"INSERT"}, data : {NoEntity},
   hasText : {FALSE}, sender : Senders]
  \cup [type : {"none", "ui_event"}, action : {"INSERT"}, data : {NoEntity},
        hasText : BOOLEAN, sender : Senders]
  \cup [type : {"task_update"}, action : EventTypes, data : [id : AgentIds, due : AgentTimes] \cup {NoEntity},
        hasText : {FALSE}, sender : Senders]
  \cup [type : {"event_update"}, action : EventTypes, data : [id : AgentIds, start : AgentTimes] \cup {NoEntity},
        hasText : {FALSE}, sender : Senders]

IsMutation(msg) == msg.type \in {"task_update", "event_update"}

\* participant?.identity || "system"
speakerOf(msg) ==
  IF msg.sender = "none" THEN <<"s", "y", "s", "t", "e", "m">> ELSE AgentWord

\* addTranscript(participant?.identity || "system", text)
rawCall(msg) == [speaker |-> speakerOf(msg), text |-> <<"r", "a", "w">>]
\* addTranscript(participant?.identity || "system", data.text || data.transcript)
fieldCall(msg) == [speaker |-> speakerOf(msg), text |-> <<"f", "i", "e", "l", "d">>]

\* a TypeError inside the inner try: data.type of null, or t.due / e.start of
\* an absent record in the membership test of INSERT
throwsInHandler(msg) ==
  \/ msg.type = "null"
  \/ (IsMutation(msg) /\ msg.action = "INSERT" /\ msg.data = NoEntity)

\* a TypeError inside the setTasks / setLocalEvents updater: entity.id of an
\* absent record (findIndex and filter call back only for a non-empty array;
\* UPDATE then reaches the membership test)
throwsInUpdater(prev, msg) ==
  /\ IsMutation(msg)
  /\ msg.data = NoEntity
  /\ \/ msg.action = "UPDATE"
     \/ (msg.action = "DELETE" /\ prev # <<>>)

\* the calls of addTranscript made by the DataReceived handler for a message
callsOf(msg) ==
  IF msg.type = "notjson" \/ throwsInHandler(msg) THEN <<rawCall(msg)>>
  ELSE IF IsMutation(msg) THEN <<>>
  ELSE IF msg.hasText THEN <<fieldCall(msg)>>
  ELSE <<>>

\* tasks after the DataReceived handler and its updater
tasksAfter(prev, msg, currentDay) ==
  IF msg.type = "task_update" /\ msg.data # NoEntity
  THEN taskUpdateMessage(prev, msg.action, msg.data, currentDay)
  ELSE prev

\* localEvents after the DataReceived handler and its updater
eventsAfter(prev, msg, currentDay) ==
  IF msg.type = "event_update" /\ msg.data # NoEntity
  THEN eventUpdateMessage(prev, msg.action, msg.data, currentDay)
  ELSE prev

\* the updater queued by the handler throws when React runs it
updaterThrows(ts, es, msg) ==
  \/ (msg.type = "task_update" /\ throwsInUpdater(ts, msg))
  \/ (msg.type = "event_update" /\ throwsInUpdater(es, msg))

\* the buffered entries at the commit: addTranscript for each call in turn,
\* all of them within the merge interval of the first
RECURSIVE buffersOf(_)
buffersOf(calls) ==
  IF calls = <<>> THEN <<>>
  ELSE LET call == calls[Len(calls)]
       IN addTranscript(buffersOf(SubSeq(calls, 1, Len(calls) - 1)), NoTimeout,
                        call.speaker, call.text, 0).buffers

RoomInit ==
  /\ selectedDay \in Days
  /\ selectedDayRef = selectedDay
  /\ tasks = <<>>
  /\ localEvents = <<>>
  /\ leaked = {}
  /\ lastCreated = 0
  /\ phase = "idle"
  /\ effects = <<>>
  /\ installed = selectedDay
  /\ RoomAtRest

UnchangedOutsideRoom ==
  UNCHANGED <<selectedDay, selectedDayRef, leaked, lastCreated, effectVars, aggregatorVars>>

\* RoomEvent.Connected
Connected ==
  /\ ~isConnected
  /\ ~renderError
  /\ isConnected' = TRUE
  /\ UNCHANGED <<tasks, localEvents, transcript, transcriptCalls, renderError>>
  /\ UnchangedOutsideRoom

\* RoomEvent.Disconnected
Disconnected ==
  /\ isConnected
  /\ isConnected' = FALSE
  /\ UNCHANGED <<tasks, localEvents, transcript, transcriptCalls, renderError>>
  /\ UnchangedOutsideRoom

\* disconnect(): room.disconnect(); setRoom(null); setIsConnected(false); setTranscript([])
Disconnect ==
  /\ isConnected
  /\ isConnected' = FALSE
  /\ transcript' = <<>>
  /\ UNCHANGED <<tasks, localEvents, transcriptCalls, renderError>>
  /\ UnchangedOutsideRoom

\* RoomEvent.DataReceived, and the updater it queued
DataReceived ==
  /\ isConnected
  /\ ~renderError
  /\ \E msg \in Messages :
       /\ Len(transcriptCalls) + Len(callsOf(msg)) <= MaxCalls
       /\ transcriptCalls' = transcriptCalls \o callsOf(msg)
       /\ IF updaterThrows(tasks, localEvents, msg)
          THEN renderError' = TRUE /\ UNCHANGED <<tasks, localEvents>>
          ELSE /\ tasks' = tasksAfter(tasks, msg, selectedDayRef)
               /\ localEvents' = eventsAfter(localEvents, msg, selectedDayRef)
               /\ Fits(tasks', localEvents')
               /\ UNCHANGED renderError
  /\ UNCHANGED <<isConnected, transcript>>
  /\ UnchangedOutsideRoom

\* the debounce timer fires: commitBufferedTranscripts()
CommitTimer ==
  /\ transcriptCalls # <<>>
  /\ ~renderError
  /\ Len(commitBufferedTranscripts(transcript, buffersOf(transcriptCalls))) <= MaxLines
  /\ transcript' = commitBufferedTranscripts(transcript, buffersOf(transcriptCalls))
  /\ transcriptCalls' = <<>>
  /\ UNCHANGED <<tasks, localEvents, isConnected, renderError>>
  /\ UnchangedOutsideRoom

RoomNext ==
  \/ Connected
  \/ Disconnected
  \/ Disconnect
  \/ DataReceived
  \/ CommitTimer

RoomSpec == RoomInit /\ [][RoomNext]_vars

(***************************************************************************)
(* The transcript aggregator in time.  The room handlers call              *)
(* addTranscript; the debounce timeout, the cleanup of the room effect and *)
(* the cleanup on unmount call commitBufferedTranscripts, which reads the  *)
(* buffers and hands setTranscript an updater.  React runs the updater at  *)
(* once when the component has no update pending, and otherwise with the   *)
(* next render; an update of an unmounted component is never run.          *)
(***************************************************************************)
MaxTicks == 2     \* steps of the clock
MaxText == 2      \* characters of a generated text

TickMs == DebounceMs

\* participant identities: the agent, an agent worker, the local user
UserIdentity == <<"u", "s", "e", "r">>
Identities == {AgentWord, AgentWord \o <<"-", "1">>, UserIdentity}

\* texts of transcript fragments
IWill == <<"I", " ", "w", "i", "l", "l">>
IWillGo == IWill \o <<" ", "g", "o">>
Go == <<"G", "o">>
\* the fragments the room delivers for a participant
Utterances(speaker) == IF speaker = UserIdentity THEN {Go} ELSE {IWill, IWillGo, Go}

\* the state after React has run the queued updates in order: the updater of
\* a commit with the buffers it read ("commit"), the value [] of disconnect
\* ("clear")
RECURSIVE applyUpdates(_, _)
applyUpdates(prev, updates) ==
  IF updates = <<>> THEN prev
  ELSE applyUpdates(IF updates[1].kind = "clear" THEN <<>>
                    ELSE commitBufferedTranscripts(prev, updates[1].buffers),
                    Tail(updates))

\* the view before connectToRoom
TeardownInit ==
  /\ selectedDay = Min(Days)
  /\ selectedDayRef = selectedDay
  /\ tasks = <<>>
  /\ localEvents = <<>>
  /\ leaked = {}
  /\ lastCreated = 0
  /\ phase = "idle"
  /\ effects = <<>>
  /\ installed = selectedDay
  /\ RoomAtRest

\* the room is connected and the effects of that render have run; nothing
\* has been received yet
AggregatorInit ==
  /\ selectedDay = Min(Days)
  /\ selectedDayRef = selectedDay
  /\ tasks = <<>>
  /\ localEvents = <<>>
  /\ leaked = {}
  /\ lastCreated = 0
  /\ phase = "idle"
  /\ effects = <<>>
  /\ installed = selectedDay
  /\ isConnected = TRUE
  /\ transcript = <<>>
  /\ transcriptCalls = <<>>
  /\ renderError = FALSE
  /\ now = 0
  /\ transcriptBufferRef = <<>>
  /\ debounceTimeoutRef = NoTimeout
  /\ pendingUpdates = <<>>
  /\ room = TRUE
  /\ effectRoom = TRUE
  /\ mounted = TRUE
  /\ dispatch = [pc |-> "none", attempt |-> 0, outcomes |-> <<>>, delays |-> 0, result |-> "none"]

UnchangedOutsideAggregator ==
  UNCHANGED <<tasks, localEvents, selectedDay, selectedDayRef, leaked, lastCreated,
              effectVars, transcriptCalls, renderError, dispatch>>

\* commitBufferedTranscripts(): nothing when no buffer is held; otherwise
\* setTranscript(updater), run at once (eager) or queued
CommitCall(eager) ==
  IF transcriptBufferRef = <<>>
  THEN UNCHANGED <<transcript, transcriptBufferRef, pendingUpdates>>
  ELSE IF eager
  THEN /\ pendingUpdates = <<>>
       /\ mounted
       /\ Len(commitBufferedTranscripts(transcript, transcriptBufferRef)) <= MaxLines
       /\ transcript' = commitBufferedTranscripts(transcript, transcriptBufferRef)
       /\ transcriptBufferRef' = <<>>
       /\ UNCHANGED pendingUpdates
  ELSE /\ pendingUpdates' = Append(pendingUpdates, [kind |-> "commit", buffers |-> transcriptBufferRef])
       /\ UNCHANGED <<transcript, transcriptBufferRef>>

\* time passes; React has rendered and a due timeout has run
Tick ==
  /\ mounted
  /\ now < MaxTicks * TickMs
  /\ pendingUpdates = <<>>
  /\ effectRoom = room
  /\ ~(debounceTimeoutRef # NoTimeout /\ debounceTimeoutRef <= now)
  /\ now' = now + TickMs
  /\ UNCHANGED <<transcriptBufferRef, debounceTimeoutRef, pendingUpdates, room, effectRoom,
                 mounted, isConnected, transcript>>
  /\ UnchangedOutsideAggregator

\* a room handler calls addTranscript(identity, text) for one of the participants
AddTranscriptOf(participants) ==
  /\ mounted
  /\ isConnected
  /\ \E speaker \in participants :
     \E text \in Utterances(speaker) :
       LET after == addTranscript(transcriptBufferRef, debounceTimeoutRef, speaker, text, now)
       IN /\ transcriptBufferRef' = after.buffers
          /\ debounceTimeoutRef' = after.timeout
  /\ UNCHANGED <<now, pendingUpdates, room, effectRoom, mounted, isConnected, transcript>>
  /\ UnchangedOutsideAggregator

\* the debounce timeout runs: commitBufferedTranscripts()
DebounceTimeout ==
  /\ mounted
  /\ debounceTimeoutRef # NoTimeout
  /\ debounceTimeoutRef <= now
  /\ debounceTimeoutRef' = NoTimeout
  /\ \E eager \in BOOLEAN : CommitCall(eager)
  /\ UNCHANGED <<now, room, effectRoom, mounted, isConnected>>
  /\ UnchangedOutsideAggregator

\* React renders: the queued setTranscript updates run in order
RunUpdates ==
  /\ mounted
  /\ pendingUpdates # <<>>
  /\ Len(applyUpdates(transcript, pendingUpdates)) <= MaxLines
  /\ transcript' = applyUpdates(transcript, pendingUpdates)
  /\ transcriptBufferRef' =
       IF \E i \in 1..Len(pendingUpdates) : pendingUpdates[i].kind = "commit"
       THEN <<>> ELSE transcriptBufferRef
  /\ pendingUpdates' = <<>>
  /\ UNCHANGED <<now, debounceTimeoutRef, room, effectRoom, mounted, isConnected>>
  /\ UnchangedOutsideAggregator

\* connectToRoom: the room connects (setIsConnected(true)) and is kept (setRoom(newRoom))
ConnectToRoom ==
  /\ mounted
  /\ ~isConnected
  /\ ~room
  /\ pendingUpdates = <<>>
  /\ effectRoom = room
  /\ isConnected' = TRUE
  /\ room' = TRUE
  /\ UNCHANGED <<now, transcriptBufferRef, debounceTimeoutRef, pendingUpdates, effectRoom,
                 mounted, transcript>>
  /\ UnchangedOutsideAggregator

\* RoomEvent.Disconnected: setIsConnected(false); setRoom(null)
RoomDisconnected ==
  /\ mounted
  /\ isConnected
  /\ isConnected' = FALSE
  /\ room' = FALSE
  /\ UNCHANGED <<now, transcriptBufferRef, debounceTimeoutRef, pendingUpdates, effectRoom,
                 mounted, transcript>>
  /\ UnchangedOutsideAggregator

\* disconnect(): room.disconnect(); setRoom(null); setIsConnected(false); setTranscript([])
UserDisconnect ==
  /\ mounted
  /\ room
  /\ isConnected' = FALSE
  /\ room' = FALSE
  /\ IF pendingUpdates = <<>>
     THEN transcript' = <<>> /\ UNCHANGED pendingUpdates
     ELSE pendingUpdates' = Append(pendingUpdates, [kind |-> "clear", buffers |-> <<>>]) /\ UNCHANGED transcript
  /\ UNCHANGED <<now, transcriptBufferRef, debounceTimeoutRef, effectRoom, mounted>>
  /\ UnchangedOutsideAggregator

\* the render that changed room is committed: the cleanup of the effect of
\* [room, commitBufferedTranscripts] runs, and the effect again
RoomEffectCleanup ==
  /\ mounted
  /\ effectRoom # room
  /\ pendingUpdates = <<>>
  /\ effectRoom' = room
  /\ debounceTimeoutRef' = NoTimeout
  /\ \E eager \in BOOLEAN : CommitCall(eager)
  /\ UNCHANGED <<now, room, mounted, isConnected>>
  /\ UnchangedOutsideAggregator

\* the component unmounts, the effects of the last commit having run: the
\* same cleanup, for the last time
UnmountCleanup ==
  /\ mounted
  /\ effectRoom = room
  /\ mounted' = FALSE
  /\ isConnected' = FALSE
  /\ debounceTimeoutRef' = NoTimeout
  /\ \E eager \in BOOLEAN :
       IF eager /\ transcriptBufferRef # <<>>
       THEN /\ pendingUpdates = <<>>
            /\ Len(commitBufferedTranscripts(transcript, transcriptBufferRef)) <= MaxLines
            /\ transcript' = commitBufferedTranscripts(transcript, transcriptBufferRef)
            /\ transcriptBufferRef' = <<>>
            /\ UNCHANGED pendingUpdates
       ELSE CommitCall(FALSE)
  /\ UNCHANGED <<now, room, effectRoom>>
  /\ UnchangedOutsideAggregator

\* a connected session in which every participant speaks
AggregatorNext ==
  \/ Tick
  \/ AddTranscriptOf(Identities)
  \/ DebounceTimeout
  \/ RunUpdates

AggregatorSpec == AggregatorInit /\ [][AggregatorNext]_vars

\* connecting, disconnecting and unmounting while the agent and the user speak
TeardownNext ==
  \/ Tick
  \/ AddTranscriptOf({AgentWord, UserIdentity})
  \/ DebounceTimeout
  \/ RunUpdates
  \/ ConnectToRoom
  \/ RoomDisconnected
  \/ UserDisconnect
  \/ RoomEffectCleanup
  \/ UnmountCleanup

TeardownSpec == TeardownInit /\ [][TeardownNext]_vars

(***************************************************************************)
(* dispatchAgentWithRetry(retries = 3, delay = 1000), awaited once by      *)
(* connectToRoom after the room has connected.  Each fetch of              *)
(* /api/trigger-agent settles with an ok response, with another status, or *)
(* rejects; the handlers of the change feed run while the call awaits.     *)
(***************************************************************************)
Retries == 3     \* retries = 3

\* one pass of the loop body with a rejected fetch escaping the try
triggerFetchRethrows(d, outcome) ==
  IF outcome = "rejected"
  THEN [d EXCEPT !.outcomes = Append(@, outcome), !.pc = "returned", !.result = "threw"]
  ELSE IF outcome = "ok"
  THEN [d EXCEPT !.outcomes = Append(@, outcome), !.pc = "returned", !.result = "true"]
  ELSE IF d.attempt < Retries
  THEN [d EXCEPT !.outcomes = Append(@, outcome), !.pc = "delay"]
  ELSE [d EXCEPT !.outcomes = Append(@, outcome), !.pc = "returned", !.result = "false"]

\* one pass of the loop body up to the delay: return true on an ok response;
\* on another status or a rejection (caught) go on to the delay when
\* attempt < retries, and otherwise leave the loop and return false
triggerFetch(d, outcome) ==
  IF outcome = "ok"
  THEN [d EXCEPT !.outcomes = Append(@, outcome), !.pc = "returned", !.result = "true"]
  ELSE IF d.attempt < Retries
  THEN [d EXCEPT !.outcomes = Append(@, outcome), !.pc = "delay"]
  ELSE [d EXCEPT !.outcomes = Append(@, outcome), !.pc = "returned", !.result = "false"]

\* connectToRoom has called dispatchAgentWithRetry(): attempt = 1
DispatchInit ==
  /\ selectedDay = Min(Days)
  /\ selectedDayRef = selectedDay
  /\ tasks = <<>>
  /\ localEvents = <<>>
  /\ leaked = {}
  /\ lastCreated = 0
  /\ phase = "idle"
  /\ effects = <<>>
  /\ installed = selectedDay
  /\ isConnected = TRUE
  /\ transcript = <<>>
  /\ transcriptCalls = <<>>
  /\ renderError = FALSE
  /\ now = 0
  /\ transcriptBufferRef = <<>>
  /\ debounceTimeoutRef = NoTimeout
  /\ pendingUpdates = <<>>
  /\ room = FALSE
  /\ effectRoom = FALSE
  /\ mounted = TRUE
  /\ dispatch = [pc |-> "fetch", attempt |-> 1, outcomes |-> <<>>, delays |-> 0, result |-> "none"]

\* await fetch("/api/trigger-agent") settles
TriggerFetch ==
  /\ dispatch.pc = "fetch"
  /\ \E outcome \in {"ok", "status", "rejected"} : dispatch' = triggerFetch(dispatch, outcome)
  /\ UNCHANGED <<tasks, localEvents, selectedDay, selectedDayRef, leaked, lastCreated, effectVars,
                 isConnected, transcript, transcriptCalls, renderError, now, transcriptBufferRef,
                 debounceTimeoutRef, pendingUpdates, room, effectRoom, mounted>>

\* await new Promise((resolve) => setTimeout(resolve, delay)); attempt++
RetryDelay ==
  /\ dispatch.pc = "delay"
  /\ dispatch' = [dispatch EXCEPT !.pc = "fetch", !.attempt = @ + 1, !.delays = @ + 1]
  /\ UNCHANGED <<tasks, localEvents, selectedDay, selectedDayRef, leaked, lastCreated, effectVars,
                 isConnected, transcript, transcriptCalls, renderError, now, transcriptBufferRef,
                 debounceTimeoutRef, pendingUpdates, room, effectRoom, mounted>>

DispatchNext ==
  \/ TriggerFetch
  \/ RetryDelay
  \/ FeedTaskInsert
  \/ FeedTaskUpdate
  \/ FeedTaskDelete

\* every await of the call settles
DispatchSpec ==
  DispatchInit /\ [][DispatchNext]_vars /\ WF_vars(TriggerFetch) /\ WF_vars(RetryDelay)

(***************************************************************************)
(* Vocabulary of the properties.                                           *)
(***************************************************************************)
\* entries of s whose id has the numeral of id
Holders(s, id) == {i \in 1..Len(s) : ToString(s[i].id.n) = ToString(id.n)}
Holds(s, id) == Holders(s, id) # {}
Occurrences(s, x) == Cardinality({i \in 1..Len(s) : s[i] = x})

OneEntryPerId(s) ==
  \A i, j \in 1..Len(s) : i # j => ToString(s[i].id.n) # ToString(s[j].id.n)

\* ascending by start
EventsAscending(s) == \A i, j \in 1..Len(s) : i < j => s[i].start <= s[j].start
\* ascending by dueAt, entries without dueAt last
TasksAscending(s) ==
  \A i, j \in 1..Len(s) : i < j =>
    \/ s[j].due = NoTime
    \/ (s[i].due # NoTime /\ s[i].due <= s[j].due)
\* entries with equal sort key in ascending id order
EventTiesById(s) ==
  \A i, j \in 1..Len(s) : (i < j /\ s[i].start = s[j].start) => s[i].id.n <= s[j].id.n
TaskTiesById(s) ==
  \A i, j \in 1..Len(s) : (i < j /\ s[i].due = s[j].due) => s[i].id.n <= s[j].id.n

\* r is prev with one entry x added, whatever the order
AddedOne(prev, x, r) ==
  /\ Len(r) = Len(prev) + 1
  /\ \A y \in Range(prev) \cup {x} :
       Occurrences(r, y) = Occurrences(prev, y) + (IF y = x THEN 1 ELSE 0)

\* r is prev with the first entry holding the id of x replaced by x, whatever the order
ReplacedFirst(prev, x, r) ==
  LET old == prev[Min(Holders(prev, x.id))]
  IN /\ Len(r) = Len(prev)
     /\ \A y \in Range(prev) \cup {x} :
          Occurrences(r, y) = Occurrences(prev, y) + (IF y = x THEN 1 ELSE 0)
                                                   - (IF y = old THEN 1 ELSE 0)

\* r is prev without the entries holding id, the others at their relative positions
RemovedById(prev, id, r) ==
  LET keep == (1..Len(prev)) \ Holders(prev, id)
      nth(j) == CHOOSE i \in keep : Cardinality({k \in keep : k <= i}) = j
  IN /\ Len(r) = Cardinality(keep)
     /\ \A j \in 1..Len(r) : r[j] = prev[nth(j)]

\* a Commitment is a member iff it has no dueAt or dueAt is not after the
\* last millisecond of the day
TaskMember(t, day) == t.due = NoTime \/ t.due <= endOfDay(day)
\* a ScheduledItem is a member iff its start lies in the half-open interval
\* from the start of the day to the start of the next day
EventMember(e, day) ==
  /\ e.start # NoTime
  /\ startOfDay(day) <= e.start
  /\ e.start < startOfDay(day + 1)

(***************************************************************************)
(* C1.  Each collection holds at most one entry per id (ids compared after *)
(* string coercion) in every reachable state.                              *)
(***************************************************************************)
C1_OneEntryPerId == OneEntryPerId(tasks) /\ OneEntryPerId(localEvents)

(***************************************************************************)
(* C2.  After an insert or update event has stored its payload, the        *)
(* collection is ascending by start / dueAt (no dueAt last) and entries    *)
(* with equal sort key are in ascending id order.                          *)
(***************************************************************************)
EventsInOrder(s) == EventsAscending(s) /\ EventTiesById(s)
TasksInOrder(s) == TasksAscending(s) /\ TaskTiesById(s)

C2_OrderedAfterApply ==
  /\ \A day \in FeedDays, e \in EventRows :
       isEventInSelectedDay(e, day) =>
         /\ ~Holds(localEvents, e.id) => EventsInOrder(feedEventInsert(localEvents, e, day))
         /\ EventsInOrder(feedEventUpdate(localEvents, e, day))
  /\ \A e \in Events :
       isInDayEvent(e, selectedDayRef) =>
         /\ ~Holds(localEvents, e.id) => EventsInOrder(agentEventInsert(localEvents, e, selectedDayRef))
         /\ EventsInOrder(agentEventUpdate(localEvents, e, selectedDayRef))
  /\ \A day \in FeedDays, t \in TaskRows :
       isTaskInSelectedDay(t, day) =>
         /\ ~Holds(tasks, t.id) => TasksInOrder(feedTaskInsert(tasks, t, day))
         /\ TasksInOrder(feedTaskUpdate(tasks, t, day))
  /\ \A t \in Tasks :
       isInDayTask(t, selectedDayRef) =>
         /\ ~Holds(tasks, t.id) => TasksInOrder(agentTaskInsert(tasks, t, selectedDayRef))
         /\ TasksInOrder(agentTaskUpdate(tasks, t, selectedDayRef))

(***************************************************************************)
(* C3.  Insert rule: an insert whose id is already held leaves the         *)
(* collection unchanged; otherwise the payload is added iff it is a member *)
(* of the window; the same insert applied twice leaves one entry with the  *)
(* id.                                                                     *)
(***************************************************************************)
InsertRule(prev, x, member, r, rr) ==
  /\ Holds(prev, x.id) => r = prev
  /\ (~Holds(prev, x.id) /\ member) => AddedOne(prev, x, r)
  /\ (~Holds(prev, x.id) /\ ~member) => r = prev
  /\ (~Holds(prev, x.id) /\ member) => Cardinality(Holders(rr, x.id)) = 1

C3_InsertRule ==
  /\ \A day \in FeedDays, e \in EventRows :
       InsertRule(localEvents, e, EventMember(e, day),
                  feedEventInsert(localEvents, e, day),
                  feedEventInsert(feedEventInsert(localEvents, e, day), e, day))
  /\ \A e \in Events :
       InsertRule(localEvents, e, EventMember(e, selectedDayRef),
                  agentEventInsert(localEvents, e, selectedDayRef),
                  agentEventInsert(agentEventInsert(localEvents, e, selectedDayRef), e, selectedDayRef))
  /\ \A day \in FeedDays, t \in TaskRows :
       InsertRule(tasks, t, TaskMember(t, day),
                  feedTaskInsert(tasks, t, day),
                  feedTaskInsert(feedTaskInsert(tasks, t, day), t, day))
  /\ \A t \in Tasks :
       InsertRule(tasks, t, TaskMember(t, selectedDayRef),
                  agentTaskInsert(tasks, t, selectedDayRef),
                  agentTaskInsert(agentTaskInsert(tasks, t, selectedDayRef), t, selectedDayRef))

(***************************************************************************)
(* C4.  Update rule: id held and payload a member: the entry is replaced   *)
(* by the payload and the collection is in sort-key order; held and not a  *)
(* member: the entry is removed; not held and a member: the payload is     *)
(* added and the collection is in sort-key order; not held and not a       *)
(* member: unchanged.                                                      *)
(***************************************************************************)
UpdateRule(prev, x, member, r, ascending) ==
  /\ (Holds(prev, x.id) /\ member) => (ReplacedFirst(prev, x, r) /\ ascending)
  /\ (Holds(prev, x.id) /\ ~member) => RemovedById(prev, x.id, r)
  /\ (~Holds(prev, x.id) /\ member) => (AddedOne(prev, x, r) /\ ascending)
  /\ (~Holds(prev, x.id) /\ ~member) => r = prev

C4_UpdateRule ==
  /\ \A day \in Days, t \in TaskRows :
       LET r == feedTaskUpdate(tasks, t, day)
       IN UpdateRule(tasks, t, TaskMember(t, day), r, TasksAscending(r))
  /\ \A day \in Days, t \in Tasks :
       LET r == agentTaskUpdate(tasks, t, day)
       IN UpdateRule(tasks, t, TaskMember(t, day), r, TasksAscending(r))
  /\ \A day \in Days, e \in EventRows :
       LET r == feedEventUpdate(localEvents, e, day)
       IN UpdateRule(localEvents, e, EventMember(e, day), r, EventsAscending(r))
  /\ \A day \in Days, e \in Events :
       LET r == agentEventUpdate(localEvents, e, day)
       IN UpdateRule(localEvents, e, EventMember(e, day), r, EventsAscending(r))

(***************************************************************************)
(* C5.  Delete rule: a delete removes the entries holding the id, whatever *)
(* the window and whether or not they are members, and leaves the other    *)
(* entries and their order unchanged; deleting an id that is not held      *)
(* leaves the collection unchanged.                                        *)
(***************************************************************************)
DeleteRule(prev, id, r) ==
  /\ RemovedById(prev, id, r)
  /\ ~Holds(r, id)
  /\ ~Holds(prev, id) => r = prev

C5_DeleteRule ==
  /\ \A id \in NumIds : DeleteRule(tasks, id, feedTaskDelete(tasks, id))
  /\ \A id \in Ids : DeleteRule(tasks, id, agentTaskDelete(tasks, id))
  /\ \A id \in NumIds : DeleteRule(localEvents, id, feedEventDelete(localEvents, id))
  /\ \A id \in Ids : DeleteRule(localEvents, id, agentEventDelete(localEvents, id))

\* a held entry that is not a member of the current window is deleted, another entry stays
C5_Witness ==
  /\ Len(tasks) = 2
  /\ \E i \in 1..Len(tasks) :
       /\ ~TaskMember(tasks[i], selectedDay)
       /\ Len(feedTaskDelete(tasks, NumId(tasks[i].id.n))) = 1

(***************************************************************************)
(* C6.  Convergence under reordering: update(id, v1) followed by           *)
(* update(id, v2) leaves the same collection, entries and order, as        *)
(* update(id, v2) alone.                                                   *)
(***************************************************************************)
C6_UpdateConvergence ==
  /\ \A day \in FeedDays, v1 \in EventRows, v2 \in EventRows :
       v1.id = v2.id =>
         feedEventUpdate(feedEventUpdate(localEvents, v1, day), v2, day)
           = feedEventUpdate(localEvents, v2, day)
  /\ \A day \in FeedDays, v1 \in TaskRows, v2 \in TaskRows :
       v1.id = v2.id =>
         feedTaskUpdate(feedTaskUpdate(tasks, v1, day), v2, day)
           = feedTaskUpdate(tasks, v2, day)

LastWins(before, x, r) ==
  /\ x \in Range(r)
  /\ Cardinality(Holders(r, x.id)) =
       (IF Holds(before, x.id) THEN Cardinality(Holders(before, x.id)) ELSE 1)
  /\ Cardinality(Holders(before, x.id)) <= 1 => \A i \in Holders(r, x.id) : r[i] = x

C8_LastAppliedWins ==
  /\ \A day \in FeedDays, t \in TaskRows :
       TaskMember(t, day) => LastWins(tasks, t, feedTaskUpdate(tasks, t, day))
  /\ \A t \in Tasks :
       TaskMember(t, selectedDayRef) => LastWins(tasks, t, agentTaskUpdate(tasks, t, selectedDayRef))
  /\ \A day \in FeedDays, e \in EventRows :
       EventMember(e, day) => LastWins(localEvents, e, feedEventUpdate(localEvents, e, day))
  /\ \A e \in Events :
       EventMember(e, selectedDayRef) =>
         LastWins(localEvents, e, agentEventUpdate(localEvents, e, selectedDayRef))

(***************************************************************************)
(* C9.  Ids are matched after string coercion in every operation on both   *)
(* channels: an event whose id has the numeral of a held entry's id finds  *)
(* that entry, whatever the two representations; an insert then adds       *)
(* nothing, an update adds no entry, a delete leaves no entry for the id.  *)
(***************************************************************************)
C9_MatchedAfterCoercion ==
  /\ \A day \in FeedDays, t \in TaskRows :
       Holds(tasks, t.id) =>
         /\ feedTaskInsert(tasks, t, day) = tasks
         /\ Len(feedTaskUpdate(tasks, t, day)) <= Len(tasks)
         /\ ~Holds(feedTaskDelete(tasks, t.id), t.id)
  /\ \A t \in Tasks :
       Holds(tasks, t.id) =>
         /\ agentTaskInsert(tasks, t, selectedDayRef) = tasks
         /\ Len(agentTaskUpdate(tasks, t, selectedDayRef)) <= Len(tasks)
         /\ ~Holds(agentTaskDelete(tasks, t.id), t.id)
  /\ \A day \in FeedDays, e \in EventRows :
       Holds(localEvents, e.id) =>
         /\ feedEventInsert(localEvents, e, day) = localEvents
         /\ Len(feedEventUpdate(localEvents, e, day)) <= Len(localEvents)
         /\ ~Holds(feedEventDelete(localEvents, e.id), e.id)
  /\ \A e \in Events :
       Holds(localEvents, e.id) =>
         /\ agentEventInsert(localEvents, e, selectedDayRef) = localEvents
         /\ Len(agentEventUpdate(localEvents, e, selectedDayRef)) <= Len(localEvents)
         /\ ~Holds(agentEventDelete(localEvents, e.id), e.id)

(***************************************************************************)
(* C10.  Source-agnostic reconciliation: an event applied by the           *)
(* change-feed handler and the same event applied by the agent-channel     *)
(* handler leave the same collection, also around a change of the selected *)
(* day.                                                                    *)
(***************************************************************************)
C10_SourceAgnostic ==
  /\ \A day \in FeedDays, t \in TaskRows :
       /\ feedTaskInsert(tasks, t, day) = agentTaskInsert(tasks, t, selectedDayRef)
       /\ feedTaskUpdate(tasks, t, day) = agentTaskUpdate(tasks, t, selectedDayRef)
       /\ feedTaskDelete(tasks, t.id) = agentTaskDelete(tasks, t.id)
  /\ \A day \in FeedDays, e \in EventRows :
       /\ feedEventInsert(localEvents, e, day) = agentEventInsert(localEvents, e, selectedDayRef)
       /\ feedEventUpdate(localEvents, e, day) = agentEventUpdate(localEvents, e, selectedDayRef)
       /\ feedEventDelete(localEvents, e.id) = agentEventDelete(localEvents, e.id)

(***************************************************************************)
(* C11.  Feed subscriptions are acquired and released in matched pairs:    *)
(* at most one tasks channel and at most one events channel are subscribed *)
(* at any time, and a channel that is subscribed is removed by the cleanup *)
(* of the effect run that created it: no run whose cleanup has been called *)
(* holds a subscribed channel.                                             *)
(***************************************************************************)
TasksChannelsOpen == {i \in 1..Len(effects) : effects[i].tasksChannel = "subscribed"}
EventsChannelsOpen == {i \in 1..Len(effects) : effects[i].eventsChannel = "subscribed"}

C11_MatchedSubscriptions ==
  /\ Cardinality(TasksChannelsOpen) <= 1
  /\ Cardinality(EventsChannelsOpen) <= 1
  /\ \A i \in 1..Len(effects) :
       effects[i].cleaned =>
         /\ effects[i].tasksChannel # "subscribed"
         /\ effects[i].eventsChannel # "subscribed"

(***************************************************************************)
(* C12.  On a window change the snapshot of the new window is installed    *)
(* before any event is applied under the new window: whenever a handler    *)
(* can run, the day read by the agent-channel handler and the day closed   *)
(* over by every subscribed change-feed channel is the day of the snapshot *)
(* the collections were last set from.                                     *)
(***************************************************************************)
C12_SnapshotBeforeEvents ==
  HandlersRun =>
    /\ selectedDayRef = installed
    /\ \A i \in TasksChannelsOpen \cup EventsChannelsOpen : effects[i].day = installed

(***************************************************************************)
(* C13.  Changing the window anchor by itself leaves both collections      *)
(* unchanged: a step that changes the day read by the handlers             *)
(* (selectedDayRef, the closure day of an effect run) changes neither      *)
(* tasks nor localEvents; entries of the old window stay until the         *)
(* snapshot is installed or an event removes them.                         *)
(***************************************************************************)
C13_AnchorChangeKeepsCollections ==
  [][(selectedDayRef' # selectedDayRef \/ effects' # effects)
       => (tasks' = tasks /\ localEvents' = localEvents)]_vars

\* the anchor has changed and the collection still holds an entry that is
\* a member of the old window only
C13_Witness ==
  /\ phase = "refSet"
  /\ selectedDayRef # installed
  /\ \E i \in 1..Len(localEvents) :
       /\ EventMember(localEvents[i], installed)
       /\ ~EventMember(localEvents[i], selectedDayRef)

(***************************************************************************)
(* C14.  A ScheduledItem is a member of the window iff its start is        *)
(* present and lies in [start of the selected day, start of the next day): *)
(* the last millisecond of the day is inside, the first instant of the     *)
(* next day is outside.  Both channels use this predicate, and an insert   *)
(* of an id that is not held adds the payload iff it is such a member.     *)
(***************************************************************************)
C14_HalfOpenDayWindow ==
  \A day \in Days, e \in Events :
    /\ isEventInSelectedDay(e, day) <=> EventMember(e, day)
    /\ isInDayEvent(e, day) <=> EventMember(e, day)
    /\ ~Holds(localEvents, e.id) =>
         (e \in Range(agentEventInsert(localEvents, e, day)) <=> EventMember(e, day))

Transition(prev, day, outside, inside, gone, a, b, c) ==
  (/\ ~Holds(prev, inside.id)
   /\ ~EventMember(outside, day)
   /\ EventMember(inside, day)
   /\ ~EventMember(gone, day))
    => (a = prev /\ AddedOne(prev, inside, b) /\ c = prev)

C19_MembershipTransition ==
  /\ \A day \in FeedDays, id \in NumIds :
       \A s1, s2, s3 \in Times \cup {NoTime} :
         LET outside == [id |-> id, start |-> s1]
             inside == [id |-> id, start |-> s2]
             gone == [id |-> id, start |-> s3]
             a == feedEventInsert(localEvents, outside, day)
             b == feedEventUpdate(a, inside, day)
             c == feedEventUpdate(b, gone, day)
         IN Transition(localEvents, day, outside, inside, gone, a, b, c)
  /\ \A id \in Ids :
       \A s1, s2, s3 \in Times \cup {NoTime} :
         LET outside == [id |-> id, start |-> s1]
             inside == [id |-> id, start |-> s2]
             gone == [id |-> id, start |-> s3]
             a == agentEventInsert(localEvents, outside, selectedDayRef)
             b == agentEventUpdate(a, inside, selectedDayRef)
             c == agentEventUpdate(b, gone, selectedDayRef)
         IN Transition(localEvents, selectedDayRef, outside, inside, gone, a, b, c)

(***************************************************************************)
(* C20.  End-to-end ordering: from an empty events collection,             *)
(* insert(id 1, start 09:00) gives [1]; then insert(id 2, start 08:00)     *)
(* gives [2, 1]; then delete(id 1) gives [2]; on the change feed and on    *)
(* the agent channel.                                                      *)
(***************************************************************************)
NineOClock == [id |-> NumId(1), start |-> 9 * HourMs]
EightOClock == [id |-> NumId(2), start |-> 8 * HourMs]

C20_EndToEndOrdering ==
  (localEvents = <<>> /\ selectedDay = 0 /\ selectedDayRef = 0) =>
    /\ LET s1 == feedEventInsert(localEvents, NineOClock, selectedDay)
           s2 == feedEventInsert(s1, EightOClock, selectedDay)
           s3 == feedEventDelete(s2, NineOClock.id)
       IN s1 = <<NineOClock>> /\ s2 = <<EightOClock, NineOClock>> /\ s3 = <<EightOClock>>
    /\ LET s1 == agentEventInsert(localEvents, NineOClock, selectedDayRef)
           s2 == agentEventInsert(s1, EightOClock, selectedDayRef)
           s3 == agentEventDelete(s2, NineOClock.id)
       IN s1 = <<NineOClock>> /\ s2 = <<EightOClock, NineOClock>> /\ s3 = <<EightOClock>>

\* the collection after the two inserts of the scenario
C20_Witness ==
  /\ selectedDay = 0
  /\ localEvents = <<EightOClock, NineOClock>>

(***************************************************************************)
(* C16.  A mutation event whose id is missing, or whose record is absent,  *)
(* is dropped: after it both collections and the transcript state are      *)
(* unchanged, no exception escapes (none is thrown by the updater it       *)
(* queued), and no collection ever holds an entry with an undefined id;    *)
(* a change-feed DELETE without an id removes nothing.                     *)
(***************************************************************************)
Malformed(msg) == IsMutation(msg) /\ (msg.data = NoEntity \/ msg.data.id = Undefined)

NoUndefinedId(s) == \A i \in 1..Len(s) : s[i].id # Undefined

C16_MalformedDropped ==
  /\ ~renderError
  /\ NoUndefinedId(tasks)
  /\ NoUndefinedId(localEvents)
  /\ \A msg \in Messages :
       Malformed(msg) =>
         /\ callsOf(msg) = <<>>
         /\ ~updaterThrows(tasks, localEvents, msg)
         /\ tasksAfter(tasks, msg, selectedDayRef) = tasks
         /\ eventsAfter(localEvents, msg, selectedDayRef) = localEvents
  /\ feedTaskDelete(tasks, Undefined) = tasks
  /\ feedEventDelete(localEvents, Undefined) = localEvents

(***************************************************************************)
(* C17.  Every agent-channel message that is not a recognized envelope     *)
(* (text that is not JSON, the JSON value null, an object with no known    *)
(* type and no text field) is passed to addTranscript as a raw fragment    *)
(* attributed to its sender.                                               *)
(***************************************************************************)
Unrecognized(msg) ==
  \/ msg.type \in {"notjson", "null"}
  \/ (msg.type = "none" /\ ~msg.hasText)

C17_UnrecognizedIsFragment ==
  \A msg \in Messages :
    Unrecognized(msg) =>
      transcriptCalls \o callsOf(msg) = Append(transcriptCalls, rawCall(msg))

(***************************************************************************)
(* C18.  On transport disconnect (the Disconnected room event or the       *)
(* user's disconnect) only the connection status changes: both collections *)
(* and the window keep their contents, no event is applied, and the        *)
(* transcript state is as it was.                                          *)
(***************************************************************************)
C18_DisconnectFreezes ==
  [][(isConnected /\ ~isConnected') =>
       /\ tasks' = tasks
       /\ localEvents' = localEvents
       /\ selectedDayRef' = selectedDayRef
       /\ transcriptCalls' = transcriptCalls
       /\ transcript' = transcript]_vars

(***************************************************************************)
(* Vocabulary of the transcript properties.                                *)
(***************************************************************************)
\* one identity for each speaker key
Speakers == {AgentWord, UserIdentity}

\* the texts the properties are stated for: every short text over a small
\* alphabet, and the examples
PaddedGoOn == <<" ", "G", "o", " ", "o", "n", " ">>
ScheduledGymAtSix ==
  <<"S", "c", "h", "e", "d", "u", "l", "e", "d", " ", "g", "y", "m", " ", "a", "t", " ",
    "s", "i", "x">>
scheduledGymAtSixDot == toLowerCase(ScheduledGymAtSix) \o <<".">>
Alphabet == {"G", "o", " "}
Texts ==
  SeqsUpTo(Alphabet, MaxText)
    \cup {IWill, IWillGo, Go, PaddedGoOn, ScheduledGymAtSix, scheduledGymAtSixDot}

SpeakerKeys == {"Tetra", "You"}
line(speaker, text, timestamp) == [speaker |-> speaker, text |-> text, timestamp |-> timestamp]

\* the buffer held for a speaker key, if any
HasBuffer(buffers, key) == \E i \in 1..Len(buffers) : buffers[i].speaker = key
BufferOf(buffers, key) == buffers[CHOOSE i \in 1..Len(buffers) : buffers[i].speaker = key]

\* the state after addTranscript(speaker, text) now
Received(speaker, text) ==
  addTranscript(transcriptBufferRef, debounceTimeoutRef, speaker, text, now)

\* lower-cased and trimmed
Normal(text) == trim(toLowerCase(text))
WordSet(text) == Range(split(Normal(text)))
\* Jaccard similarity of the word sets above 0.85
Similar(a, b) ==
  100 * Cardinality(WordSet(a) \cap WordSet(b)) > 85 * Cardinality(WordSet(a) \cup WordSet(b))
\* a contains b and is longer
StrictlyContains(a, b) == includes(a, b) /\ Len(a) > Len(b)
\* the text has at least 2 characters after trimming
Accepted(text) == Len(trim(text)) >= 2

(***************************************************************************)
(* C21.  Every call of addTranscript with a text of at least 2 characters, *)
(* for any speaker, resets the one debounce timeout to 1500 ms from now,   *)
(* also when the text is discarded as a stale partial of the buffer.       *)
(***************************************************************************)
C21_EveryReceiveResetsTimer ==
  \A speaker \in Identities, text \in Texts :
    Accepted(text) => Received(speaker, text).timeout = now + DebounceMs

(***************************************************************************)
(* C22.  With "Scheduled gym at six" as the last committed line, a commit  *)
(* of the same speaker's buffer "scheduled gym at six." appends nothing;   *)
(* and a buffered text is dropped by a commit exactly when the last        *)
(* committed line has its speaker and is normalized-equal to it or has a   *)
(* word-set Jaccard similarity above 0.85 with it.                         *)
(***************************************************************************)
C22_FuzzyDedup ==
  /\ \A key \in SpeakerKeys :
       LET prev == <<line(key, ScheduledGymAtSix, 0)>>
       IN commitBufferedTranscripts(prev, <<line(key, scheduledGymAtSixDot, now)>>) = prev
  /\ \A key \in SpeakerKeys, text \in Texts :
       Accepted(text) /\ transcript # <<>> =>
         LET last == transcript[Len(transcript)]
             dropped == commitBufferedTranscripts(transcript, <<line(key, trim(text), now)>>)
                          = transcript
         IN dropped <=> /\ last.speaker = key
                        /\ (Normal(last.text) = Normal(text) \/ Similar(last.text, text))

(***************************************************************************)
(* C23.  When addTranscript("agent", "I will") was called at t0 and        *)
(* addTranscript("agent", "I will go") is called less than 3000 ms later,  *)
(* the agent key has one buffer with the text "I will go" and the          *)
(* timestamp t0, and the commit of it leaves exactly one line of the agent *)
(* for the two calls.                                                      *)
(***************************************************************************)
ClockTimes == {k * TickMs : k \in 0..MaxTicks}
Last(s) == s[Len(s)]

\* addTranscript("agent", "I will") created the agent's buffer at t0: the
\* buffer is held, or it has become the last committed line
IWillReceivedAt(t0) ==
  \/ /\ HasBuffer(transcriptBufferRef, "Tetra")
     /\ BufferOf(transcriptBufferRef, "Tetra") = line("Tetra", IWill, t0)
  \/ /\ ~HasBuffer(transcriptBufferRef, "Tetra")
     /\ transcript # <<>>
     /\ Last(transcript) = line("Tetra", IWill, t0)

C23_TranscriptMerge ==
  \A t0 \in ClockTimes :
    IWillReceivedAt(t0) /\ now - t0 < MergeMs =>
      LET after == Received(AgentWord, IWillGo)
          committed == commitBufferedTranscripts(transcript, after.buffers)
      IN /\ HasBuffer(after.buffers, "Tetra")
         /\ BufferOf(after.buffers, "Tetra") = line("Tetra", IWillGo, t0)
         /\ Cardinality({i \in 1..Len(committed) :
              committed[i].speaker = "Tetra" /\ committed[i].timestamp >= t0}) = 1

(***************************************************************************)
(* C24.  When the view is unmounted while buffers are held, every buffered *)
(* entry is appended to the committed lines or is a duplicate of the last  *)
(* committed line, the buffers are then empty, the pending debounce        *)
(* timeout is cancelled, and none is pending after the unmount.            *)
(***************************************************************************)
Duplicate(prev, buffer) ==
  /\ prev # <<>>
  /\ Last(prev).speaker = buffer.speaker
  /\ (Normal(Last(prev).text) = Normal(buffer.text) \/ Similar(Last(prev).text, buffer.text))
IsPrefix(s, t) == Len(s) <= Len(t) /\ SubSeq(t, 1, Len(s)) = s
Appended(s, t) == SubSeq(t, Len(s) + 1, Len(t))

C24_TeardownFlushes ==
  [][/\ (mounted /\ ~mounted' /\ transcriptBufferRef # <<>>) =>
          /\ IsPrefix(transcript, transcript')
          /\ \A i \in 1..Len(transcriptBufferRef) :
               \/ transcriptBufferRef[i] \in Range(Appended(transcript, transcript'))
               \/ Duplicate(transcript, transcriptBufferRef[i])
          /\ transcriptBufferRef' = <<>>
     /\ ~mounted' => debounceTimeoutRef' = NoTimeout]_vars

(***************************************************************************)
(* C25.  While the view is mounted the committed lines only grow at the    *)
(* end: no step (addTranscript, a commit, a flush, connecting, the user's  *)
(* disconnect, the Disconnected event) removes, changes or reorders a line *)
(* that was appended.                                                      *)
(***************************************************************************)
C25_AppendOnly ==
  [][mounted' => IsPrefix(transcript, transcript')]_vars

(***************************************************************************)
(* C26.  When the speaker's buffer holds a normalized text that strictly   *)
(* contains the incoming normalized text, addTranscript changes no buffer; *)
(* when the incoming normalized text strictly contains the buffered one,   *)
(* the buffer's text becomes the incoming text (trimmed) and its timestamp *)
(* stays; no other buffer changes.                                         *)
(***************************************************************************)
\* the buffers with the text and the timestamp of the key's buffer set
WithBuffer(buffers, key, text, timestamp) ==
  [i \in 1..Len(buffers) |->
     IF buffers[i].speaker = key THEN line(key, text, timestamp) ELSE buffers[i]]

Stale(speaker, text) ==
  /\ Accepted(text)
  /\ HasBuffer(transcriptBufferRef, normalizedSpeaker(speaker))
  /\ StrictlyContains(Normal(BufferOf(transcriptBufferRef, normalizedSpeaker(speaker)).text),
                      Normal(text))

Extends(speaker, text) ==
  /\ Accepted(text)
  /\ HasBuffer(transcriptBufferRef, normalizedSpeaker(speaker))
  /\ StrictlyContains(Normal(text),
                      Normal(BufferOf(transcriptBufferRef, normalizedSpeaker(speaker)).text))

C26_ContainmentRules ==
  \A speaker \in Speakers, text \in Texts :
    LET key == normalizedSpeaker(speaker)
    IN /\ Stale(speaker, text) => Received(speaker, text).buffers = transcriptBufferRef
       /\ Extends(speaker, text) =>
            Received(speaker, text).buffers =
              WithBuffer(transcriptBufferRef, key, trim(text),
                         BufferOf(transcriptBufferRef, key).timestamp)

\* one buffer is held that a text would extend after its first instant, and
\* one that makes a text stale
C26_Witness ==
  /\ \E speaker \in Speakers, text \in Texts :
       /\ Extends(speaker, text)
       /\ BufferOf(transcriptBufferRef, normalizedSpeaker(speaker)).timestamp < now
       /\ Received(speaker, text).buffers # transcriptBufferRef
  /\ \E speaker \in Speakers, text \in Texts :
       /\ Stale(speaker, text)
       /\ debounceTimeoutRef # NoTimeout

(***************************************************************************)
(* C27.  When neither normalized text contains the other and less than     *)
(* 3000 ms have passed since the buffer's timestamp, the buffer's text     *)
(* becomes the old text followed by the white-space delimited tokens of    *)
(* the incoming text that are not tokens of the buffer, in their order;    *)
(* the timestamp stays, and nothing changes when there is no such token.   *)
(***************************************************************************)
Tokens(text) == split(trim(text))
NewTokens(buffer, text) ==
  SelectSeq(Tokens(text), LAMBDA token : token \notin Range(Tokens(buffer.text)))
Unrelated(speaker, text) ==
  /\ Accepted(text)
  /\ HasBuffer(transcriptBufferRef, normalizedSpeaker(speaker))
  /\ LET buffered == Normal(BufferOf(transcriptBufferRef, normalizedSpeaker(speaker)).text)
     IN ~includes(buffered, Normal(text)) /\ ~includes(Normal(text), buffered)

C27_MergeAppendsNewTokens ==
  \A speaker \in Speakers, text \in Texts :
    LET key == normalizedSpeaker(speaker)
        buffer == BufferOf(transcriptBufferRef, key)
    IN Unrelated(speaker, text) /\ now - buffer.timestamp < MergeMs =>
         Received(speaker, text).buffers =
           IF NewTokens(buffer, text) = <<>> THEN transcriptBufferRef
           ELSE WithBuffer(transcriptBufferRef, key,
                           buffer.text \o <<" ">> \o join(NewTokens(buffer, text)),
                           buffer.timestamp)

(***************************************************************************)
(* C28.  When neither normalized text contains the other and 3000 ms or    *)
(* more have passed since the buffer's timestamp, the speaker's buffer     *)
(* becomes the incoming text (trimmed) with the current time as timestamp; *)
(* a buffer that is replaced or merged keeps its timestamp, so the time is *)
(* counted from the first call and not from the last.                      *)
(***************************************************************************)
C28_GapStartsNewBuffer ==
  \A speaker \in Speakers, text \in Texts :
    LET key == normalizedSpeaker(speaker)
        buffer == BufferOf(transcriptBufferRef, key)
        after == Received(speaker, text).buffers
    IN /\ Unrelated(speaker, text) /\ now - buffer.timestamp >= MergeMs =>
            after = WithBuffer(transcriptBufferRef, key, trim(text), now)
       /\ (Accepted(text) /\ HasBuffer(transcriptBufferRef, key)
             /\ (Extends(speaker, text) \/ now - buffer.timestamp < MergeMs)) =>
            BufferOf(after, key).timestamp = buffer.timestamp

\* a buffer first written 3000 ms ago, and written again since, is replaced
C28_Witness ==
  \E speaker \in Speakers, text \in Texts :
    /\ Unrelated(speaker, text)
    /\ now - BufferOf(transcriptBufferRef, normalizedSpeaker(speaker)).timestamp >= MergeMs
    /\ debounceTimeoutRef # NoTimeout
    /\ BufferOf(Received(speaker, text).buffers, normalizedSpeaker(speaker)).timestamp = now

(***************************************************************************)
(* C29.  When the commit runs, every buffer that is not a duplicate of the *)
(* last committed line is appended as a line with the buffer's speaker,    *)
(* text and timestamp, every buffer is cleared, and the aggregator is      *)
(* idle: no buffer, no pending debounce timeout, no commit pending.        *)
(***************************************************************************)
C29_CommitClearsAndIdles ==
  [][(transcriptBufferRef # <<>> /\ transcriptBufferRef' = <<>>) =>
       /\ transcript' =
            transcript \o SelectSeq(transcriptBufferRef,
                                    LAMBDA buffer : ~Duplicate(transcript, buffer))
       /\ debounceTimeoutRef' = NoTimeout
       /\ pendingUpdates' = <<>>]_vars

(***************************************************************************)
(* C30.  addTranscript with a text that is empty or has fewer than 2       *)
(* characters after trimming changes nothing: no buffer is created or      *)
(* changed and the debounce timeout is neither started nor reset.          *)
(***************************************************************************)
C30_ShortTextIgnored ==
  \A speaker \in Speakers, text \in Texts :
    ~Accepted(text) =>
      Received(speaker, text) =
        [buffers |-> transcriptBufferRef, timeout |-> debounceTimeoutRef]

\* a short text arrives while a buffer is held and the timeout set earlier is pending
C30_Witness ==
  /\ transcriptBufferRef # <<>>
  /\ debounceTimeoutRef # NoTimeout
  /\ debounceTimeoutRef # now + DebounceMs
  /\ \E text \in Texts : text # <<>> /\ ~Accepted(text)

(***************************************************************************)
(* C31.  The buffers have only the two speaker keys, each at most once:    *)
(* addTranscript files an identity under the agent's key when it is or     *)
(* contains "agent" and under the human's key otherwise, so at most two    *)
(* buffers are held and a commit appends at most two lines.                *)
(***************************************************************************)
\* the identity has the letters a, g, e, n, t in a row
NamesAgent(speaker) ==
  \E i \in 1..Len(speaker) :
    /\ i + 4 <= Len(speaker)
    /\ <<speaker[i], speaker[i + 1], speaker[i + 2], speaker[i + 3], speaker[i + 4]>>
         = <<"a", "g", "e", "n", "t">>
KeyOf(speaker) == IF NamesAgent(speaker) THEN "Tetra" ELSE "You"
\* at most one buffer for each of the two keys
Canonical(buffers) ==
  /\ \A i \in 1..Len(buffers) : buffers[i].speaker \in SpeakerKeys
  /\ \A i, j \in 1..Len(buffers) : buffers[i].speaker = buffers[j].speaker => i = j
  /\ Len(buffers) <= 2

C31_TwoCanonicalKeys ==
  /\ Canonical(transcriptBufferRef)
  /\ Len(commitBufferedTranscripts(transcript, transcriptBufferRef)) <= Len(transcript) + 2
  /\ \A i \in 1..Len(pendingUpdates) : Canonical(pendingUpdates[i].buffers)
  /\ \A speaker \in Identities, text \in Texts :
       /\ Canonical(Received(speaker, text).buffers)
       /\ Accepted(text) => HasBuffer(Received(speaker, text).buffers, KeyOf(speaker))
       /\ \A key \in SpeakerKeys :
            HasBuffer(Received(speaker, text).buffers, key) =>
              HasBuffer(transcriptBufferRef, key) \/ key = KeyOf(speaker)

\* both buffers are held, the agent's one written for an identity that
\* contains "agent" without being it
C31_Witness ==
  /\ Len(transcriptBufferRef) = 2
  /\ \E speaker \in Identities :
       /\ speaker # AgentWord
       /\ NamesAgent(speaker)
       /\ \E text \in Texts :
            Received(speaker, text).buffers # transcriptBufferRef

(***************************************************************************)
(* C32.  While the selected day stays as it is and every entry of the two  *)
(* collections is a member of its window, every entry is a member after    *)
(* any event of the change feed or of the agent channel; an insert or      *)
(* update whose entity is outside the window does not add the entity, and  *)
(* such an update leaves no entry with its id.                             *)
(***************************************************************************)
AllTaskMembers(ts, day) == \A i \in 1..Len(ts) : TaskMember(ts[i], day)
AllEventMembers(es, day) == \A i \in 1..Len(es) : EventMember(es[i], day)
\* the subscriptions that run are those of the selected day
WindowFixed == leaked = {} /\ selectedDayRef = selectedDay

TasksStayMembers(t, inserted, updated, deleted) ==
  /\ AllTaskMembers(inserted, selectedDay)
  /\ AllTaskMembers(updated, selectedDay)
  /\ AllTaskMembers(deleted, selectedDay)
  /\ ~TaskMember(t, selectedDay) =>
       /\ inserted = tasks
       /\ ~Holds(updated, t.id)

EventsStayMembers(e, inserted, updated, deleted) ==
  /\ AllEventMembers(inserted, selectedDay)
  /\ AllEventMembers(updated, selectedDay)
  /\ AllEventMembers(deleted, selectedDay)
  /\ ~EventMember(e, selectedDay) =>
       /\ inserted = localEvents
       /\ ~Holds(updated, e.id)

KeptIn(entries, buffer) ==
  \E i \in 1..Len(entries) :
    /\ entries[i].speaker = buffer.speaker
    /\ includes(Normal(entries[i].text), Normal(buffer.text))

C33_NoUtteranceLost ==
  [][\A i \in 1..Len(transcriptBufferRef) :
       \/ KeptIn(transcriptBufferRef', transcriptBufferRef[i])
       \/ /\ IsPrefix(transcript, transcript')
          /\ KeptIn(Appended(transcript, transcript'), transcriptBufferRef[i])
       \/ Duplicate(transcript, transcriptBufferRef[i])]_vars

(***************************************************************************)
(* C34.  A commit is atomic with respect to addTranscript: whenever        *)
(* buffers are cleared, the lines the step appends are exactly the cleared *)
(* buffers that are not duplicates of the last committed line, so a        *)
(* fragment buffered between the call of commitBufferedTranscripts and the *)
(* run of its updater is not cleared without being committed.              *)
(***************************************************************************)
\* the buffers a step removes from the map
Cleared(before, after) == {buffer \in Range(before) : ~HasBuffer(after, buffer.speaker)}

C34_CommitAtomic ==
  [][Cleared(transcriptBufferRef, transcriptBufferRef') # {} =>
       /\ IsPrefix(transcript, transcript')
       /\ Range(Appended(transcript, transcript')) =
            {buffer \in Cleared(transcriptBufferRef, transcriptBufferRef') :
               ~Duplicate(transcript, buffer)}]_vars

(***************************************************************************)
(* C35.  A task created locally and the change-feed INSERT of its row can  *)
(* be processed in either order: for a new row whose id is not held, the   *)
(* response of handleSaveTask followed by the INSERT, and the INSERT       *)
(* followed by the response, both leave exactly one entry with the id.     *)
(***************************************************************************)
C35_CreateRacesSafely ==
  \A data \in TaskRows :
    ~Holds(tasks, data.id) =>
      /\ Cardinality(Holders(feedTaskInsert(saveTaskCreate(tasks, data), data, selectedDay),
                             data.id)) = 1
      /\ Cardinality(Holders(saveTaskCreate(feedTaskInsert(tasks, data, selectedDay), data),
                             data.id)) = 1

(***************************************************************************)
(* C36.  The snapshot and the insert rule agree on membership: whichever   *)
(* day is selected, a row of the server is delivered by the snapshot of    *)
(* the day exactly when the change-feed INSERT of the row into an empty    *)
(* collection admits it.                                                   *)
(***************************************************************************)
C36_SnapshotAgreesWithInsert ==
  /\ \A t \in TaskRows :
       <<t>> \in SnapshotTasks[selectedDay] <=> feedTaskInsert(<<>>, t, selectedDay) = <<t>>
  /\ \A e \in EventRows :
       <<e>> \in SnapshotEvents[selectedDay] <=> feedEventInsert(<<>>, e, selectedDay) = <<e>>

(***************************************************************************)
(* C37.  A message of the agent channel is handled as one kind only: a     *)
(* task_update or event_update message makes no call of addTranscript,     *)
(* whether or not its handling fails, and a ui_event message makes none    *)
(* and leaves both collections as they are.                                *)
(***************************************************************************)
C37_OneKindPerMessage ==
  \A msg \in Messages :
    /\ IsMutation(msg) => callsOf(msg) = <<>>
    /\ msg.type = "ui_event" =>
         /\ callsOf(msg) = <<>>
         /\ ~updaterThrows(tasks, localEvents, msg)
         /\ tasksAfter(tasks, msg, selectedDayRef) = tasks
         /\ eventsAfter(localEvents, msg, selectedDayRef) = localEvents

(***************************************************************************)
(* C38.  No two adjacent committed lines have the same speaker and the     *)
(* same lower-cased, trimmed text, whatever was received and whenever the  *)
(* commits ran.                                                            *)
(***************************************************************************)
C38_NoAdjacentDuplicates ==
  \A i \in 1..Len(transcript) :
    i < Len(transcript) =>
      ~(/\ transcript[i].speaker = transcript[i + 1].speaker
        /\ Normal(transcript[i].text) = Normal(transcript[i + 1].text))

\* the buffer of the speaker of the last committed line holds that line's
\* text again and the debounce timeout is due
C38_Witness ==
  /\ transcript # <<>>
  /\ debounceTimeoutRef # NoTimeout
  /\ debounceTimeoutRef <= now
  /\ \E i \in 1..Len(transcriptBufferRef) :
       /\ transcriptBufferRef[i].speaker = Last(transcript).speaker
       /\ Normal(transcriptBufferRef[i].text) = Normal(Last(transcript).text)

(***************************************************************************)
(* C40.  The committed lines are in non-decreasing order of timestamp: a   *)
(* line is never followed by a line with an earlier timestamp.             *)
(***************************************************************************)
C40_TimestampsNonDecreasing ==
  \A i, j \in 1..Len(transcript) :
    i < j => transcript[i].timestamp <= transcript[j].timestamp

(***************************************************************************)
(* C39.  dispatchAgentWithRetry ends: it makes at most 3 attempts, returns *)
(* true at the first attempt whose response is ok, waits after every       *)
(* failed attempt but the last, returns false after 3 failed attempts, and *)
(* throws nothing.                                                         *)
(***************************************************************************)
Failed(outcome) == outcome # "ok"
\* the attempts made so far and the delays between them are as stated
DispatchAsStated ==
  /\ Len(dispatch.outcomes) <= 3
  /\ \A i \in 1..Len(dispatch.outcomes) : i < Len(dispatch.outcomes) => Failed(dispatch.outcomes[i])
  /\ dispatch.result \in {"none", "true", "false"}
  /\ dispatch.pc = "returned" <=> dispatch.result # "none"
  /\ dispatch.result = "true" =>
       /\ dispatch.outcomes # <<>>
       /\ ~Failed(dispatch.outcomes[Len(dispatch.outcomes)])
       /\ dispatch.delays = Len(dispatch.outcomes) - 1
  /\ dispatch.result = "false" =>
       /\ Len(dispatch.outcomes) = 3
       /\ \A i \in 1..3 : Failed(dispatch.outcomes[i])
       /\ dispatch.delays = 2
  /\ dispatch.result = "none" =>
       /\ \A i \in 1..Len(dispatch.outcomes) : Failed(dispatch.outcomes[i])
       /\ dispatch.delays = IF dispatch.pc = "delay" THEN Len(dispatch.outcomes) - 1
                            ELSE Len(dispatch.outcomes)

C39_DispatchRetryTerminates ==
  /\ []DispatchAsStated
  /\ <>(dispatch.pc = "returned")

\* the call has returned false: three attempts, of which one was rejected and
\* one answered with a status that is not ok
C39_Witness ==
  /\ dispatch.result = "false"
  /\ \E i, j \in 1..Len(dispatch.outcomes) :
       dispatch.outcomes[i] = "rejected" /\ dispatch.outcomes[j] = "status"

====
